---- MODULE Spec2Model ----
(***************************************************************************)
(* A model of src/experiments/runner.js: the experiment runner (prompt     *)
(* building, answer extraction, tolerance scoring, dry-run synthesis, the  *)
(* trial loop of runTrials/main and aggregate) and the XAyBGame class.     *)
(*                                                                         *)
(* Numbers are IEEE 754 double precision values, as JavaScript's are, with *)
(* the arithmetic rounded as the language rounds it (nil is JavaScript's   *)
(* null); texts are sequences of one-character strings.                    *)
(*                                                                         *)
(* The file holds two programs. Node evaluates the whole of it: it calls    *)
(* main, which runs up to its first await, and goes on to the last         *)
(* statement, document.addEventListener(...), which throws a               *)
(* ReferenceError where no global document is defined; the process then    *)
(* ends with main suspended. Where one is defined, main runs to its end.   *)
(* The game is modelled as the page that constructs an XAyBGame.           *)
(***************************************************************************)
EXTENDS Integers, Sequences, FiniteSets, TLC

\* the element of a set of one element. Only({F(v) : v \in {e}}) is F(e)
\* with e computed once, as a const binding v = e followed by F(v)
Only(S) == CHOOSE r \in S : TRUE

Abs(x) == IF x < 0 THEN -x ELSE x

Min(a, b) == IF a <= b THEN a ELSE b

Max(a, b) == IF a <= b THEN b ELSE a

\* ------------------------------------------------------------------------
\* Texts
\* ------------------------------------------------------------------------
Digits == <<"0", "1", "2", "3", "4", "5", "6", "7", "8", "9">>

IsDigit(c) == \E d \in 1..10 : Digits[d] = c

DigitVal(c) == (CHOOSE d \in 1..10 : Digits[d] = c) - 1

Upper == <<"A", "B", "C", "D", "E", "F", "G", "H", "I", "J", "K", "L", "M",
           "N", "O", "P", "Q", "R", "S", "T", "U", "V", "W", "X", "Y", "Z">>

Lower == <<"a", "b", "c", "d", "e", "f", "g", "h", "i", "j", "k", "l", "m",
           "n", "o", "p", "q", "r", "s", "t", "u", "v", "w", "x", "y", "z">>

\* the case folding of a regular expression's i flag
ToLower(c) ==
  IF \E k \in 1..26 : Upper[k] = c
  THEN Lower[CHOOSE k \in 1..26 : Upper[k] = c]
  ELSE c

\* A character that a string of this module cannot hold is written as the
\* name of its code point, "U+00A0" for the no-break space.
\* \s of a regular expression, which is also what String.prototype.trim and
\* Number() take off: the white space and the line terminators of the language
IsSpace(c) ==
  c \in {" ", "\t", "\n", "\r", "\f", "U+000B", "U+00A0", "U+1680",
         "U+2000", "U+2001", "U+2002", "U+2003", "U+2004", "U+2005", "U+2006",
         "U+2007", "U+2008", "U+2009", "U+200A", "U+2028", "U+2029", "U+202F",
         "U+205F", "U+3000", "U+FEFF"}

RECURSIVE Concat(_)
Concat(ss) == IF ss = <<>> THEN <<>> ELSE Head(ss) \o Concat(Tail(ss))

RECURSIVE NatChars(_)
NatChars(n) ==
  IF n < 10 THEN <<Digits[n + 1]>>
  ELSE NatChars(n \div 10) \o <<Digits[(n % 10) + 1]>>

RECURSIVE Zeros(_)
Zeros(n) == IF n <= 0 THEN <<>> ELSE <<"0">> \o Zeros(n - 1)

\* ------------------------------------------------------------------------
\* Whole numbers of any size: the sequence of their limbs in base
\* 2^LimbBits, the least significant first, without leading zero limbs (zero
\* is <<>>)
\* ------------------------------------------------------------------------
\* the size of a limb: the numbers are the same for every size up to 15,
\* which keeps the product of two limbs below 2^31
LimbBits == 14

Base == 2^LimbBits

ZeroLimbs(n) == [i \in 1..n |-> 0]

BigTrim(a) ==
  Only({
         IF v = <<>> THEN v
         ELSE IF v[Len(v)] # 0 THEN v
         ELSE IF \A i \in 1..Len(v) : v[i] = 0 THEN <<>>
         ELSE SubSeq(v, 1, CHOOSE i \in 1..Len(v) :
                             v[i] # 0 /\ \A j \in (i + 1)..Len(v) : v[j] = 0) : v \in {a}})

\* the whole number n < 2^31 as limbs
BigOf(n) == BigTrim(<<n % Base, (n \div Base) % Base, n \div (Base * Base)>>)

\* -1, 0 or 1 as a < b, a = b or a > b
BigCmp(a, b) ==
  Only({
          IF Len(x) # Len(y) THEN (IF Len(x) < Len(y) THEN -1 ELSE 1)
          ELSE IF x = y THEN 0
          ELSE Only({ IF x[i] < y[i] THEN -1 ELSE 1 : i \in {CHOOSE i \in 1..Len(x) :
                      x[i] # y[i] /\ \A j \in (i + 1)..Len(x) : x[j] = y[j]}})
                          : x \in {a}, y \in {b}})

\* the limbs of a sum, given the sums s of the limbs: a carry leaves limb i
\* when a limb at or below i overflows and the limbs between are full
BigCarry(s) ==
  IF \A i \in 1..Len(s) : s[i] < Base THEN BigTrim(s)
  ELSE BigTrim([i \in 1..(Len(s) + 1) |->
                  ((IF i <= Len(s) THEN s[i] ELSE 0)
                     + (IF \E j \in 1..(i - 1) :
                             s[j] >= Base /\ \A h \in (j + 1)..(i - 1) : s[h] = Base - 1
                        THEN 1 ELSE 0)) % Base])

BigAdd(a, b) ==
  Only({
          Only({BigCarry(s) :
                  s \in {[i \in 1..Max(Len(x), Len(y)) |->
                           (IF i <= Len(x) THEN x[i] ELSE 0) + (IF i <= Len(y) THEN y[i] ELSE 0)]}})
                               : x \in {a}, y \in {b}})

\* the limbs of a difference, given the differences d of the limbs: a borrow
\* leaves limb i when a limb at or below i is negative and those between are 0
BigBorrow(d) ==
  BigTrim([i \in 1..Len(d) |->
             (d[i] + Base
                - (IF \E j \in 1..(i - 1) :
                        d[j] < 0 /\ \A h \in (j + 1)..(i - 1) : d[h] = 0
                   THEN 1 ELSE 0)) % Base])

\* a - b for a >= b
BigSub(a, b) ==
  Only({
          Only({BigBorrow(d) :
                  d \in {[i \in 1..Len(x) |-> x[i] - (IF i <= Len(y) THEN y[i] ELSE 0)]}})
                      : x \in {a}, y \in {b}})

\* a * c for 0 <= c <= Base
BigMulSmall(a, c) ==
  Only({
          BigAdd([i \in 1..Len(x) |-> (x[i] * k) % Base],
                 <<0>> \o [i \in 1..Len(x) |-> (x[i] * k) \div Base]) : x \in {a}, k \in {c}})

\* the sum of the products of a by the limbs lo..hi of b, each at its weight
RECURSIVE BigMulRange(_, _, _, _)
BigMulRange(a, b, lo, hi) ==
  IF lo = hi THEN ZeroLimbs(lo - 1) \o BigMulSmall(a, b[lo])
  ELSE Only({            BigAdd(BigMulRange(a, b, lo, mid),
                                BigMulRange(a, b, mid + 1, hi)) : mid \in {(lo + hi) \div 2}})

BigMul(a, b) ==
  Only({              IF x = <<>> \/ y = <<>> THEN <<>>
                      ELSE BigMulRange(x, y, 1, Len(y)) : x \in {a}, y \in {b}})

\* the division by d of the limbs lo..hi of a, r the remainder carried in
\* from the limbs above: [q, r] with q the limbs lo..hi of the quotient
RECURSIVE BigDivSmallRange(_, _, _, _, _)
BigDivSmallRange(a, d, lo, hi, r) ==
  IF lo = hi
  THEN [q |-> <<(r * Base + a[lo]) \div d>>, r |-> (r * Base + a[lo]) % d]
  ELSE Only({
               Only({ [q |-> dn.q \o up.q, r |-> dn.r]
                   : dn \in {BigDivSmallRange(a, d, lo, mid, up.r)}})
                   : mid \in {(lo + hi) \div 2},
                     up \in {BigDivSmallRange(a, d, (lo + hi) \div 2 + 1, hi, r)}})

\* [q, r]: the quotient and the remainder of a by d, 0 < d < 2^16
BigDivSmall(a, d) ==
  Only({
          IF x = <<>> THEN [q |-> <<>>, r |-> 0]
          ELSE Only({ [q |-> BigTrim(res.q), r |-> res.r]
              : res \in {BigDivSmallRange(x, k, 1, Len(x), 0)}})
              : x \in {a}, k \in {d}})

\* a * 2^s
BigShl(a, s) ==
  Only({
          IF x = <<>> \/ k = 0 THEN x
          ELSE Only({
                       BigTrim([i \in 1..(Len(x) + w + 1) |->
                                  (IF w < i /\ i <= Len(x) + w
                                   THEN (x[i - w] * f) % Base ELSE 0)
                                    + (IF w + 1 < i
                                       THEN (x[i - w - 1] * f) \div Base ELSE 0)])
                                           : w \in {k \div LimbBits}, f \in {2^(k % LimbBits)}})
                                           : x \in {a}, k \in {s}})

\* the whole part of a / 2^s
BigShr(a, s) ==
  Only({
          IF k = 0 THEN BigTrim(x)
          ELSE Only({
                       BigTrim([i \in 1..(Len(x) - w) |->
                                  (x[i + w] \div f)
                                    + (IF i + w < Len(x)
                                       THEN (x[i + w + 1] % f) * (Base \div f)
                                       ELSE 0)])
                                           : w \in {k \div LimbBits}, f \in {2^(k % LimbBits)}})
                                           : x \in {a}, k \in {s}})

\* the number of bits of a
BigBitLen(a) ==
  Only({
         IF x = <<>> THEN 0
         ELSE (Len(x) - 1) * LimbBits
                + (CHOOSE k \in 1..LimbBits : 2^(k - 1) <= x[Len(x)] /\ x[Len(x)] < 2^k)
                    : x \in {a}})

\* the bit of a of weight 2^i
BigBit(a, i) ==
  Only({
          IF (k \div LimbBits) + 1 > Len(x) THEN 0
          ELSE (x[(k \div LimbBits) + 1] \div 2^((k % LimbBits))) % 2 : x \in {a}, k \in {i}})

\* whether the n lowest bits of a are zero
BigLowZero(a, n) ==
  Only({
          /\ \A i \in 1..Min(Len(x), (k \div LimbBits)) : x[i] = 0
          /\ (k \div LimbBits) + 1 <= Len(x)
               => x[(k \div LimbBits) + 1] % 2^((k % LimbBits)) = 0 : x \in {a}, k \in {n}})

\* the number of zero bits at the low end of a # 0
BigTrailingZeros(a) ==
  Only({
         Only({
                (i - 1) * LimbBits
                  + (CHOOSE k \in 0..(LimbBits - 1) :
                       x[i] % 2^k = 0 /\ (x[i] \div 2^k) % 2 = 1)
                           : i \in {CHOOSE i \in 1..Len(x) : x[i] # 0 /\ \A j \in 1..(i - 1) : x[j] = 0}})
                           : x \in {a}})

\* the division of r by b for the bits of weights 2^hi down to 2^lo of the
\* quotient, r < b * 2^(hi + 1): [q, r] with q those bits as a whole number
RECURSIVE BigDivModRange(_, _, _, _)
BigDivModRange(r, b, hi, lo) ==
  IF hi = lo
  THEN Only({          IF BigCmp(r, d) >= 0
                       THEN [q |-> <<1>>, r |-> BigSub(r, d)]
                       ELSE [q |-> <<>>, r |-> r] : d \in {BigShl(b, lo)}})
  ELSE Only({
               Only({           [q |-> BigAdd(BigShl(up.q, mid - lo + 1), dn.q),
                                 r |-> dn.r] : dn \in {BigDivModRange(up.r, b, mid, lo)}})
                                     : mid \in {(hi + lo) \div 2},
                                       up \in {BigDivModRange(r, b, hi, (hi + lo) \div 2 + 1)}})

\* [q, r]: the quotient and the remainder of a by b # 0
BigDivMod(a, b) ==
  Only({
          IF Len(y) = 1
          THEN Only({ [q |-> d.q, r |-> BigOf(d.r)] : d \in {BigDivSmall(x, y[1])}})
          ELSE IF BigBitLen(x) < BigBitLen(y) THEN [q |-> <<>>, r |-> x]
          ELSE BigDivModRange(x, y, BigBitLen(x) - BigBitLen(y), 0) : x \in {a}, y \in {b}})

\* 5^k
RECURSIVE BigPow5(_)
BigPow5(k) ==
  Only({
         IF n <= 6 THEN BigOf(5^n)
         ELSE IF n % 2 = 0 THEN Only({ BigMul(h, h) : h \in {BigPow5(n \div 2)}})
         ELSE BigMulSmall(BigPow5(n - 1), 5) : n \in {k}})

\* [q, sticky]: the whole part of a / 5^k, and whether a remainder was left
RECURSIVE BigDivPow5(_, _)
BigDivPow5(a, k) ==
  Only({
         IF n <= 6
         THEN Only({ [q |-> d.q, sticky |-> d.r # 0] : d \in {BigDivSmall(a, 5^n)}})
         ELSE Only({
                     Only({ [q |-> dn.q, sticky |-> up.sticky \/ dn.sticky]
                         : dn \in {BigDivPow5(up.q, n - n \div 2)}})
                         : up \in {BigDivPow5(a, n \div 2)}})
                         : n \in {k}})

\* the whole number written with the digits lo..hi of ds, fewer than ten
RECURSIVE SmallFromDigits(_, _, _)
SmallFromDigits(ds, lo, hi) ==
  IF hi < lo THEN 0
  ELSE 10 * SmallFromDigits(ds, lo, hi - 1) + DigitVal(ds[hi])

\* the whole number written with the digits lo..hi of ds
RECURSIVE BigFromDigitsRange(_, _, _)
BigFromDigitsRange(ds, lo, hi) ==
  IF hi - lo < 8 THEN BigOf(SmallFromDigits(ds, lo, hi))
  ELSE Only({
              BigAdd(BigMul(BigFromDigitsRange(ds, lo, mid),
                            BigShl(BigPow5(hi - mid), hi - mid)),
                     BigFromDigitsRange(ds, mid + 1, hi)) : mid \in {(lo + hi) \div 2}})

\* the whole number written with the decimal digits ds
BigFromDigits(ds) == Only({ BigFromDigitsRange(s, 1, Len(s)) : s \in {ds}})

\* the decimal digits of a, none for zero: four at a time
RECURSIVE BigToDigits(_)
BigToDigits(a) ==
  Only({
         IF x = <<>> THEN <<>>
         ELSE Only({
                     IF d.q = <<>> THEN NatChars(d.r)
                     ELSE BigToDigits(d.q)
                            \o Zeros(4 - Len(NatChars(d.r))) \o NatChars(d.r)
                                : d \in {BigDivSmall(x, 10000)}})
                                : x \in {a}})

\* ------------------------------------------------------------------------
\* Numbers: IEEE 754 double precision values. [nil, neg, man, exp] stands for
\* (-1)^neg * man * 2^exp with man odd (zero is man = <<>>, exp = 0); every
\* magnitude of 2^1024 and more is Infinity; NaN is the record NaN. nil is
\* set in JavaScript's null and undefined, which are no numbers.
\* ------------------------------------------------------------------------
MantissaBits == 53

MinExp == -1074

MaxTop == 1024

Null == [nil |-> TRUE, neg |-> FALSE, man |-> <<>>, exp |-> 0]

Zero == [nil |-> FALSE, neg |-> FALSE, man |-> <<>>, exp |-> 0]

Infinity(neg) == [nil |-> FALSE, neg |-> neg, man |-> <<1>>, exp |-> MaxTop]

NaN == [nil |-> FALSE, neg |-> FALSE, man |-> <<>>, exp |-> MaxTop]

Undefined == [nil |-> TRUE, neg |-> FALSE, man |-> <<>>, exp |-> MaxTop]

\* the exponent of the leading bit of x # 0
Top(x) == BigBitLen(x.man) + x.exp - 1

\* Number.isFinite(x) for a number x
IsFinite(x) == x # NaN /\ (x.man = <<>> \/ Top(x) < MaxTop)

\* x is Infinity or -Infinity
IsInfinite(x) == x.man = <<1>> /\ x.exp = MaxTop

\* the number that an operand of + or < is turned into: undefined gives NaN
AsNumber(v) == IF v = Undefined THEN NaN ELSE v

\* the number (-1)^neg * n * 2^e, which is a double or beyond the doubles
Canon(neg, n, e) ==
  Only({
          IF v = <<>> THEN Zero
          ELSE Only({
                      IF BigBitLen(v) + k - 1 >= MaxTop THEN Infinity(neg)
                      ELSE [nil |-> FALSE, neg |-> neg, man |-> BigShr(v, tz),
                            exp |-> k + tz] : tz \in {BigTrailingZeros(v)}})
                                : v \in {n}, k \in {e}})

\* n / 2^shift rounded to a whole number, a half going to the even side
RoundShift(n, shift) ==
  Only({
          Only({
                 IF /\ BigBit(v, s - 1) = 1
                    /\ (~BigLowZero(v, s - 1) \/ BigBit(v, s) = 1)
                 THEN BigAdd(m, <<1>>) ELSE m : m \in {BigShr(v, s)}})
                     : v \in {n}, s \in {shift}})

\* the double nearest to (-1)^neg * n * 2^e
RoundToDouble(neg, n, e) ==
  Only({
          IF v = <<>> THEN Zero
          ELSE Only({
                      IF q <= k THEN Canon(neg, v, k)
                      ELSE Canon(neg, RoundShift(v, q - k), q)
                          : q \in {Max(BigBitLen(v) + k - MantissaBits, MinExp)}})
                          : v \in {n}, k \in {e}})

\* the double nearest to (-1)^neg * (a / b) * 2^e for a, b # 0: the quotient
\* to 60 bits and more, with one more bit telling whether a remainder was left
RoundQuotient(neg, a, b, e) ==
  Only({
          Only({
                 Only({
                        RoundToDouble(neg,
                                      BigAdd(BigShl(d.q, 1),
                                             IF d.r = <<>> THEN <<>> ELSE <<1>>),
                                      e - s - 1) : d \in {BigDivMod(BigShl(x, s), y)}})
                                          : s \in {Max(0, 60 + BigBitLen(y) - BigBitLen(x))}})
                                          : x \in {a}, y \in {b}})

\* the double nearest to (-1)^neg * m * 10^e for a whole number m # 0 of len
\* decimal digits
FromDecimal(neg, m, len, e) ==
  IF e + len - 1 >= 309 THEN Infinity(neg)
  ELSE IF e + len <= -324 THEN Zero
  ELSE IF e >= 0 THEN RoundToDouble(neg, BigMul(m, BigPow5(e)), e)
  ELSE Only({
              Only({
                     RoundToDouble(neg,
                                   BigAdd(BigShl(d.q, 1),
                                          IF d.sticky THEN <<1>> ELSE <<>>),
                                   e - s - 1) : d \in {BigDivPow5(BigShl(m, s), -e)}})
                                       : s \in {Max(0, 60 - 3 * e - BigBitLen(m))}})

\* the digits ds without their leading zeros
StripZeros(ds) ==
  Only({
         IF \A i \in 1..Len(s) : s[i] = "0" THEN <<>>
         ELSE SubSeq(s, CHOOSE i \in 1..Len(s) :
                          s[i] # "0" /\ \A j \in 1..(i - 1) : s[j] = "0",
                     Len(s)) : s \in {ds}})

\* the double nearest to (-1)^neg * ds * 10^e10, ds a sequence of decimal
\* digits: a numeric literal, or Number() of such a string
ToDouble(neg, ds, e10) ==
  Only({
          IF s = <<>> THEN Zero
          ELSE FromDecimal(neg, BigFromDigits(s), Len(s), e)
              : s \in {StripZeros(ds)}, e \in {e10}})

\* the literal m * 10^e
Dec(m, e) == ToDouble(m < 0, NatChars(Abs(m)), e)

\* the number that the whole number i is
FromInt(i) == Canon(i < 0, BigOf(Abs(i)), 0)

DecNeg(x) ==
  Only({ IF a.man = <<>> THEN a ELSE [a EXCEPT !.neg = ~a.neg] : a \in {x}})

DecAbs(x) == Only({ [a EXCEPT !.neg = FALSE] : a \in {x}})

\* x * y
DecMul(x, y) ==
  Only({
          IF a = NaN \/ b = NaN THEN NaN
          ELSE IF IsInfinite(a) \/ IsInfinite(b)
            THEN (IF a.man = <<>> \/ b.man = <<>> THEN NaN
                  ELSE Infinity(a.neg # b.neg))
          ELSE RoundToDouble(a.neg # b.neg, BigMul(a.man, b.man), a.exp + b.exp)
              : a \in {x}, b \in {y}})

\* the sum of the magnitudes m * 2^e of a and b, a.neg and b.neg their signs
AddAligned(a, b, m, n, e) ==
  IF a.neg = b.neg THEN RoundToDouble(a.neg, BigAdd(m, n), e)
  ELSE IF BigCmp(m, n) >= 0 THEN RoundToDouble(a.neg, BigSub(m, n), e)
  ELSE RoundToDouble(b.neg, BigSub(n, m), e)

\* x + y
DecAdd(x, y) ==
  Only({
          IF a = NaN \/ b = NaN THEN NaN
          ELSE IF IsInfinite(a)
            THEN (IF IsInfinite(b) /\ a.neg # b.neg THEN NaN ELSE a)
          ELSE IF IsInfinite(b) THEN b
          ELSE IF a.man = <<>> THEN b
          ELSE IF b.man = <<>> THEN a
          ELSE Only({ AddAligned(a, b, m, n, Min(a.exp, b.exp))
              : m \in {BigShl(a.man, a.exp - Min(a.exp, b.exp))},
                n \in {BigShl(b.man, b.exp - Min(a.exp, b.exp))}})
              : a \in {x}, b \in {y}})

\* x - y
DecSub(x, y) == DecAdd(x, DecNeg(y))

\* x / y
DecDiv(x, y) ==
  Only({
          IF a = NaN \/ b = NaN THEN NaN
          ELSE IF IsInfinite(a)
            THEN (IF IsInfinite(b) THEN NaN ELSE Infinity(a.neg # b.neg))
          ELSE IF IsInfinite(b) THEN Zero
          ELSE IF b.man = <<>>
            THEN (IF a.man = <<>> THEN NaN ELSE Infinity(a.neg))
          ELSE IF a.man = <<>> THEN Zero
          ELSE RoundQuotient(a.neg # b.neg, a.man, b.man, a.exp - b.exp)
              : a \in {x}, b \in {y}})

\* a <= b for the magnitudes of a and b
LeqMagnitude(a, b) ==
  IF a.man = <<>> THEN TRUE
  ELSE IF b.man = <<>> THEN FALSE
  ELSE IF Top(a) # Top(b) THEN Top(a) < Top(b)
  ELSE BigCmp(BigShl(a.man, a.exp - Min(a.exp, b.exp)),
              BigShl(b.man, b.exp - Min(a.exp, b.exp))) <= 0

\* x <= y
DecLeq(x, y) ==
  Only({
          IF a = NaN \/ b = NaN THEN FALSE
          ELSE IF a.neg /\ ~b.neg THEN TRUE
          ELSE IF ~a.neg /\ b.neg THEN a.man = <<>> /\ b.man = <<>>
          ELSE IF ~a.neg THEN LeqMagnitude(a, b)
          ELSE LeqMagnitude(b, a) : a \in {x}, b \in {y}})

\* x < y
DecLess(x, y) ==
  Only({ a # NaN /\ b # NaN /\ ~DecLeq(b, a) : a \in {x}, b \in {y}})

\* Math.max(x, y)
DecMax(x, y) ==
  Only({
          IF a = NaN \/ b = NaN THEN NaN
          ELSE IF DecLeq(a, b) THEN b ELSE a : a \in {x}, b \in {y}})

\* Math.round(x): the whole number nearest to x, a half going up; Infinity,
\* -Infinity and NaN are their own roundings
MathRound(x) ==
  Only({
         IF a.exp >= 0 THEN a
         ELSE IF Top(a) < -1 THEN Zero
         ELSE IF ~a.neg
           THEN Canon(FALSE, BigShr(BigAdd(a.man, BigShl(<<1>>, -a.exp - 1)), -a.exp), 0)
         ELSE IF BigCmp(a.man, BigShl(<<1>>, -a.exp - 1)) < 0 THEN Zero
         ELSE Canon(TRUE,
                    BigShr(BigAdd(BigSub(a.man, BigShl(<<1>>, -a.exp - 1)),
                                  BigSub(BigShl(<<1>>, -a.exp), <<1>>)),
                           -a.exp),
                    0) : a \in {x}})

\* round(x, digits): Math.round(x * p) / p with p = Math.pow(10, digits)
round(x, digits) ==
  Only({ DecDiv(MathRound(DecMul(x, p)), p) : p \in {FromInt(10^digits)}})

\* ------------------------------------------------------------------------
\* Number::toString
\* ------------------------------------------------------------------------
\* the digits ds, a whole number, plus one
IncDigits(ds) ==
  Only({
         IF \A i \in 1..Len(s) : s[i] = "9" THEN <<"1">> \o Zeros(Len(s))
         ELSE Only({          SubSeq(s, 1, i - 1) \o <<Digits[DigitVal(s[i]) + 2]>>
                                \o Zeros(Len(s) - i) : i \in {CHOOSE i \in 1..Len(s) :
                     s[i] # "9" /\ \A j \in (i + 1)..Len(s) : s[j] = "9"}}) : s \in {ds}})

\* the digits ds without their trailing zeros
StripTrailingZeros(ds) ==
  Only({
         IF \A i \in 1..Len(s) : s[i] = "0" THEN <<>>
         ELSE SubSeq(s, 1, CHOOSE i \in 1..Len(s) :
                             s[i] # "0" /\ \A j \in (i + 1)..Len(s) : s[j] = "0") : s \in {ds}})

\* [s, n] for the digits ds of a whole number times 10^e: the digits without
\* trailing zeros, and n with value = 0.s * 10^n
Digits10(ds, e) == [s |-> StripTrailingZeros(ds), n |-> Len(ds) + e]

\* -1, 0 or 1 as the fraction 0.rest, with more beyond it when sticky is set,
\* is below, at or above one half
CmpHalf(rest, sticky) ==
  IF rest = <<>> THEN (IF sticky THEN 1 ELSE -1)
  ELSE IF DigitVal(rest[1]) < 5 THEN -1
  ELSE IF DigitVal(rest[1]) > 5 THEN 1
  ELSE IF ~sticky /\ \A i \in 2..Len(rest) : rest[i] = "0" THEN 0
  ELSE 1

\* [q, sticky]: the whole part of a * 10^j for a double a > 0, and whether
\* a fraction was left
ScaledFloor(a, j) ==
  IF j >= 0
  THEN Only({
              IF a.exp + j >= 0 THEN [q |-> BigShl(n, a.exp + j), sticky |-> FALSE]
              ELSE [q |-> BigShr(n, -(a.exp + j)),
                    sticky |-> ~BigLowZero(n, -(a.exp + j))]
                        : n \in {BigMul(a.man, BigPow5(j))}})
  ELSE IF a.exp + j >= 0 THEN BigDivPow5(BigShl(a.man, a.exp + j), -j)
  ELSE Only({          [q |-> d.q,
                        sticky |-> d.sticky \/ ~BigLowZero(a.man, -(a.exp + j))]
                            : d \in {BigDivPow5(BigShr(a.man, -(a.exp + j)), -j)}})

\* the shortest digits that give a back, from k digits on: all are the first
\* digits of a, at least 19 of them, the last of weight 10^e, and sticky
\* tells whether a has more digits after them
RECURSIVE ShortestFrom(_, _, _, _, _)
ShortestFrom(a, all, sticky, e, k) ==
  Only({
          Only({
                  IF okLo /\ okHi
                  THEN (IF CmpHalf(SubSeq(all, k + 1, Len(all)), sticky) < 0
                           \/ ( /\ CmpHalf(SubSeq(all, k + 1, Len(all)), sticky) = 0
                                /\ DigitVal(lo[k]) % 2 = 0 )
                        THEN Digits10(lo, e + Len(all) - k)
                        ELSE Digits10(hi, e + Len(all) - k))
                  ELSE IF okLo \/ (k >= 17 /\ ~okHi) THEN Digits10(lo, e + Len(all) - k)
                  ELSE IF okHi THEN Digits10(hi, e + Len(all) - k)
                  ELSE ShortestFrom(a, all, sticky, e, k + 1)
                      : okLo \in {ToDouble(FALSE, lo, e + Len(all) - k) = a},
                        okHi \in {ToDouble(FALSE, hi, e + Len(all) - k) = a}})
                      : lo \in {SubSeq(all, 1, k)}, hi \in {IncDigits(SubSeq(all, 1, k))}})

\* the least number of digits with which the number of the digits all, and
\* maybe more after them, can be written so as to give a normal double back:
\* the distance from such a double to the next is less than 2^-52 of it, so
\* that the digits from the one after the last kept to the fifteenth must be
\* all zeros (to cut them off) or all nines (to round them up)
FirstLength(all) ==
  CHOOSE k \in 1..15 :
    /\ \/ \A i \in (k + 1)..15 : all[i] = "0"
       \/ \A i \in (k + 1)..15 : all[i] = "9"
    /\ \A h \in 1..(k - 1) :
         /\ \E i \in (h + 1)..15 : all[i] # "0"
         /\ \E i \in (h + 1)..15 : all[i] # "9"

\* the shortest digits that give the double a > 0 back, e the weight of the
\* last of all: when a is normal and nothing but zeros follows the first
\* FirstLength digits, these digits are a itself
ShortestOf(a, all, sticky, e) ==
  IF Top(a) < MinExp + MantissaBits - 1 THEN ShortestFrom(a, all, sticky, e, 1)
  ELSE Only({
              IF ~sticky /\ \A i \in (k + 1)..Len(all) : all[i] = "0"
              THEN Digits10(SubSeq(all, 1, k), e + Len(all) - k)
              ELSE ShortestFrom(a, all, sticky, e, k) : k \in {FirstLength(all)}})

\* [s, n]: the shortest decimal digits s that give the magnitude of x # 0
\* back when read as a number, value = 0.s * 10^n
ShortestDecimal(x) ==
  Only({
         Only({
                Only({ ShortestOf(a, BigToDigits(w.q), w.sticky, -j)
                    : w \in {ScaledFloor(a, j)}})
                    : j \in {20 - (Top(a) * 30103) \div 100000}})
                    : a \in {DecAbs(x)}})

\* the text of the digits s with the point after n of them
FormatDigits(s, k, n) ==
  IF k <= n /\ n <= 21 THEN s \o Zeros(n - k)
  ELSE IF 0 < n /\ n <= 21
    THEN SubSeq(s, 1, n) \o <<".">> \o SubSeq(s, n + 1, k)
  ELSE IF -6 < n /\ n <= 0
    THEN <<"0", ".">> \o Zeros(-n) \o s
  ELSE IF k = 1
    THEN s \o <<"e">> \o (IF n - 1 < 0 THEN <<"-">> ELSE <<"+">>) \o NatChars(Abs(n - 1))
  ELSE <<s[1], ".">> \o SubSeq(s, 2, k) \o <<"e">>
         \o (IF n - 1 < 0 THEN <<"-">> ELSE <<"+">>) \o NatChars(Abs(n - 1))

\* Number::toString of a number, as a template literal `${x}` applies it
NumberToString(x) ==
  Only({
         IF a = NaN THEN <<"N", "a", "N">>
         ELSE IF a.man = <<>> THEN <<"0">>
         ELSE IF ~IsFinite(a)
           THEN (IF a.neg THEN <<"-">> ELSE <<>>)
                  \o <<"I", "n", "f", "i", "n", "i", "t", "y">>
         ELSE Only({          (IF a.neg THEN <<"-">> ELSE <<>>)
                                \o FormatDigits(d.s, Len(d.s), d.n)
                                    : d \in {ShortestDecimal(a)}})
                                    : a \in {x}})

\* ------------------------------------------------------------------------
\* Configurable settings
\* ------------------------------------------------------------------------
Linear == <<"l", "i", "n", "e", "a", "r">>
Septagon == <<"s", "e", "p", "t", "a", "g", "o", "n">>

problems == <<
  [id |-> <<"m", "e", "c", "h", "a", "n", "i", "c", "s", "_", "a">>,
   topic |-> "Classical Mechanics",
   statement |-> "A 2 kg object is pulled with a horizontal force of 10 N on a frictionless surface. Calculate its acceleration.",
   expectedValue |-> Dec(5, 0),
   toleranceRatio |-> Dec(5, -2),
   units |-> <<"m", "/", "s", "^", "2">>,
   septagonNodes |-> <<"mass m = 2 kg", "horizontal force F = 10 N",
                       "frictionless surface", "target: acceleration a">>],
  [id |-> <<"e", "m", "_", "b", "f", "i", "e", "l", "d">>,
   topic |-> "Electromagnetism",
   statement |-> "A long straight wire carries a current of 3 A. What is the magnetic field strength at a distance of 5 cm from the wire in vacuum?",
   expectedValue |-> Dec(12, -6),
   toleranceRatio |-> Dec(1, -1),
   units |-> <<"T">>,
   septagonNodes |-> <<"current I = 3 A", "distance r = 0.05 m",
                       "constant mu0 = 4pi x 10^-7 H/m", "target: magnetic field B">>],
  [id |-> <<"t", "h", "e", "r", "m", "o", "_", "w", "o", "r", "k">>,
   topic |-> "Thermodynamics",
   statement |-> "In a closed system, 1 mol ideal gas undergoes isothermal expansion at T = 300 K from V1 = 2 L to V2 = 4 L. Compute the work done by the gas.",
   expectedValue |-> Dec(17285, -1),
   toleranceRatio |-> Dec(5, -2),
   units |-> <<"J">>,
   septagonNodes |-> <<"amount n = 1 mol", "temperature T = 300 K",
                       "initial volume V1 = 2 L", "final volume V2 = 4 L",
                       "process: isothermal", "target: work W">>] >>

\* ------------------------------------------------------------------------
\* Prompt templates (a prompt is the sequence of its lines)
\* ------------------------------------------------------------------------
buildLinearPrompt(problem) ==
  << "You are given a physics problem. Solve it with step-by-step reasoning and provide the final numeric answer with units.",
     <<"Problem: ", problem.statement>>,
     "Output format: first show key formulas and steps, then a single final line starting with \"Final Answer:\" followed by the numeric value and units." >>

buildSeptagonPrompt(problem) ==
  << "You are given the following non-linear septagon diagram nodes that encode the problem context. Use the relationships between nodes to reason and solve. Provide the final numeric answer with units.",
     "Nodes:",
     [k \in 1..Len(problem.septagonNodes) |-> <<"- ", problem.septagonNodes[k]>>],
     "Output format: first map nodes to formulas, then show reasoning steps, then a single final line starting with \"Final Answer:\" followed by the numeric value and units." >>

\* ------------------------------------------------------------------------
\* Evaluation helpers
\* ------------------------------------------------------------------------
\* String.prototype.split(/\r?\n/)
RECURSIVE SplitLines(_)
SplitLines(t) ==
  IF \A i \in 1..Len(t) : t[i] # "\n" THEN <<t>>
  ELSE
    LET i    == CHOOSE j \in 1..Len(t) :
                  t[j] = "\n" /\ \A h \in 1..(j - 1) : t[h] # "\n"
        line == IF i > 1 /\ t[i - 1] = "\r"
                THEN SubSeq(t, 1, i - 2) ELSE SubSeq(t, 1, i - 1)
    IN  <<line>> \o SplitLines(SubSeq(t, i + 1, Len(t)))

\* the number of leading \s characters of t from index i on
RECURSIVE SpaceRun(_, _)
SpaceRun(t, i) ==
  IF i <= Len(t) /\ IsSpace(t[i]) THEN 1 + SpaceRun(t, i + 1) ELSE 0

FinalAnswerWords ==
  <<"f", "i", "n", "a", "l", " ", "a", "n", "s", "w", "e", "r">>

\* /^\s*Final Answer\s*:/i.test(l)
IsFinalLine(l) ==
  LET a == SpaceRun(l, 1)
      w == Len(FinalAnswerWords)
  IN  /\ a + w <= Len(l)
      /\ \A k \in 1..w : ToLower(l[a + k]) = FinalAnswerWords[k]
      /\ LET b == SpaceRun(l, a + w + 1)
         IN  a + w + b + 1 <= Len(l) /\ l[a + w + b + 1] = ":"

\* a variant that takes the last final-answer line
FindLastFinalLine(lines) ==
  Only({
         IF \E i \in 1..Len(ls) : IsFinalLine(ls[i])
         THEN ls[CHOOSE i \in 1..Len(ls) :
                   IsFinalLine(ls[i]) /\ \A h \in (i + 1)..Len(ls) : ~IsFinalLine(ls[h])]
         ELSE <<>> : ls \in {lines}})

\* lines.find(...): the first final-answer line, or <<>> for undefined
FindFinalLine(lines) ==
  Only({
         IF \E i \in 1..Len(ls) : IsFinalLine(ls[i])
         THEN ls[CHOOSE i \in 1..Len(ls) :
                   IsFinalLine(ls[i]) /\ \A h \in 1..(i - 1) : ~IsFinalLine(ls[h])]
         ELSE <<>> : ls \in {lines}})

\* a variant that leaves the commas in
KeepCommas(t) == t

\* replace(/,/g, '')
StripCommas(t) == SelectSeq(t, LAMBDA c : c # ",")

\* the number of digits of t from index i on
RECURSIVE DigitRun(_, _)
DigitRun(t, i) ==
  IF i <= Len(t) /\ IsDigit(t[i]) THEN 1 + DigitRun(t, i + 1) ELSE 0

\* where /(-?\d+(?:\.\d+)?(?:e[+-]?\d+)?)/i can start matching at index p
MatchStartsAt(t, p) ==
  \/ IsDigit(t[p])
  \/ t[p] = "-" /\ p < Len(t) /\ IsDigit(t[p + 1])

NoMatch == [found |-> FALSE, neg |-> FALSE, int |-> <<>>, frac |-> <<>>,
            eneg |-> FALSE, exp |-> <<>>]

\* the optional exponent (?:e[+-]?\d+)? at index x: sgn tells whether a sign
\* follows the e, ne is the number of digits after that
MatchExp(t, neg, int, frac, x, sgn, ne) ==
  [found |-> TRUE,
   neg   |-> neg,
   int   |-> int,
   frac  |-> frac,
   eneg  |-> ne > 0 /\ sgn /\ t[x + 1] = "-",
   exp   |-> IF ne > 0
             THEN SubSeq(t, IF sgn THEN x + 2 ELSE x + 1,
                         (IF sgn THEN x + 1 ELSE x) + ne)
             ELSE <<>>]

\* the pattern from index x on, the index after the integer digits and the
\* fraction
MatchTail(t, neg, int, frac, x, hasE, sgn) ==
  Only({ MatchExp(t, neg, int, frac, x, sgn, ne)
      : ne \in {IF hasE THEN DigitRun(t, IF sgn THEN x + 2 ELSE x + 1) ELSE 0}})

\* the optional fraction (?:\.\d+)? at index d, nf the number of digits after
\* the point
MatchFrac(t, neg, int, d, nf) ==
  LET x    == IF nf > 0 THEN d + 1 + nf ELSE d
      hasE == x <= Len(t) /\ ToLower(t[x]) = "e"
  IN  MatchTail(t, neg, int, IF nf > 0 THEN SubSeq(t, d + 1, d + nf) ELSE <<>>,
                x, hasE, hasE /\ x + 1 <= Len(t) /\ t[x + 1] \in {"+", "-"})

\* -?\d+ at index p: i0 is the index of the first digit, d the index after
\* the last
MatchInt(t, neg, i0, d) ==
  Only({ MatchFrac(t, neg, SubSeq(t, i0, d - 1), d, nf)
      : nf \in {IF d <= Len(t) /\ t[d] = "." THEN DigitRun(t, d + 1) ELSE 0}})

MatchAt(t, neg, i0) ==
  Only({ MatchInt(t, neg, i0, d) : d \in {i0 + DigitRun(t, i0)}})

\* the parts of the leftmost match of the numeric pattern in t:
\* [found, neg, int, frac, eneg, exp], each part a sequence of digits
NumericMatch(t) ==
  IF \A p \in 1..Len(t) : ~MatchStartsAt(t, p) THEN NoMatch
  ELSE
    Only({ MatchAt(t, t[p] = "-", IF t[p] = "-" THEN p + 1 ELSE p)
        : p \in {CHOOSE q \in 1..Len(t) :
           MatchStartsAt(t, q) /\ \A h \in 1..(q - 1) : ~MatchStartsAt(t, h)}})

\* the whole number that the digits ds of an exponent write; every exponent
\* of a million and more stands for a million, which is beyond every double
ExponentValue(ds) ==
  Only({ IF Len(s) > 6 THEN 1000000 ELSE SmallFromDigits(s, 1, Len(s))
      : s \in {StripZeros(ds)}})

\* Number(match[1]) for a match of the numeric pattern
ToNumber(mt) ==
  ToDouble(mt.neg, mt.int \o mt.frac,
           (IF mt.eneg THEN -1 ELSE 1) * ExponentValue(mt.exp) - Len(mt.frac))

\* Number.isFinite(value) ? value : null
FiniteOrNull(n) == IF IsFinite(n) THEN n ELSE Null

\* extractFinalNumeric from `if (!match)` on
NumberOf(match) == IF ~match.found THEN Null ELSE FiniteOrNull(ToNumber(match))

\* extractFinalNumeric from `const target` on
ExtractFrom(answerText, finalLine) ==
  Only({ Only({ NumberOf(match) : match \in {NumericMatch(stripped)}})
      : stripped \in {StripCommas(IF finalLine # <<>> THEN finalLine ELSE answerText)}})

extractFinalNumeric(answerText) ==
  IF answerText = <<>> THEN Null
  ELSE Only({ ExtractFrom(answerText, finalLine)
      : finalLine \in {FindFinalLine(SplitLines(answerText))}})

\* a variant that returns true for null
isWithinToleranceNullTrue(actual, expected, toleranceRatio) ==
  IF actual.nil THEN TRUE
  ELSE
    LET allowed == DecMul(DecAbs(expected), toleranceRatio)
    IN  DecLeq(DecAbs(DecSub(actual, expected)), allowed)

isWithinTolerance(actual, expected, toleranceRatio) ==
  IF actual.nil THEN FALSE
  ELSE
    LET allowed == DecMul(DecAbs(expected), toleranceRatio)
    IN  DecLeq(DecAbs(DecSub(actual, expected)), allowed)

\* ------------------------------------------------------------------------
\* Dry-run synthesis
\* ------------------------------------------------------------------------
means == <<
  [id |-> problems[1].id, rep |-> Linear,   t |-> Dec(213, -1), err |-> Dec(28, -2)],
  [id |-> problems[1].id, rep |-> Septagon, t |-> Dec(180, -1), err |-> Dec(22, -2)],
  [id |-> problems[2].id, rep |-> Linear,   t |-> Dec(255, -1), err |-> Dec(31, -2)],
  [id |-> problems[2].id, rep |-> Septagon, t |-> Dec(217, -1), err |-> Dec(25, -2)],
  [id |-> problems[3].id, rep |-> Linear,   t |-> Dec(234, -1), err |-> Dec(29, -2)],
  [id |-> problems[3].id, rep |-> Septagon, t |-> Dec(196, -1), err |-> Dec(23, -2)] >>

\* means[problemId]?.[representation] reads two properties by name, and a read
\* finds what an object inherits as well as what it owns: means and its
\* entries inherit from Object.prototype, whose methods are functions.
\* the methods of Object.prototype, and the length of each; the first is Object
ObjectMethods == <<
  [name |-> <<"c", "o", "n", "s", "t", "r", "u", "c", "t", "o", "r">>, length |-> 1],
  [name |-> <<"_", "_", "d", "e", "f", "i", "n", "e", "G", "e", "t", "t", "e", "r", "_", "_">>, length |-> 2],
  [name |-> <<"_", "_", "d", "e", "f", "i", "n", "e", "S", "e", "t", "t", "e", "r", "_", "_">>, length |-> 2],
  [name |-> <<"h", "a", "s", "O", "w", "n", "P", "r", "o", "p", "e", "r", "t", "y">>, length |-> 1],
  [name |-> <<"_", "_", "l", "o", "o", "k", "u", "p", "G", "e", "t", "t", "e", "r", "_", "_">>, length |-> 1],
  [name |-> <<"_", "_", "l", "o", "o", "k", "u", "p", "S", "e", "t", "t", "e", "r", "_", "_">>, length |-> 1],
  [name |-> <<"i", "s", "P", "r", "o", "t", "o", "t", "y", "p", "e", "O", "f">>, length |-> 1],
  [name |-> <<"p", "r", "o", "p", "e", "r", "t", "y", "I", "s", "E", "n", "u", "m", "e", "r", "a", "b", "l", "e">>, length |-> 1],
  [name |-> <<"t", "o", "S", "t", "r", "i", "n", "g">>, length |-> 0],
  [name |-> <<"v", "a", "l", "u", "e", "O", "f">>, length |-> 0],
  [name |-> <<"t", "o", "L", "o", "c", "a", "l", "e", "S", "t", "r", "i", "n", "g">>, length |-> 0] >>

ProtoName == <<"_", "_", "p", "r", "o", "t", "o", "_", "_">>

\* what a function inherits from Function.prototype beside them: methods, and
\* the two accessors that throw a TypeError when read on a built-in function
FunctionMethods == {<<"a", "p", "p", "l", "y">>, <<"b", "i", "n", "d">>, <<"c", "a", "l", "l">>}

RestrictedNames == {<<"a", "r", "g", "u", "m", "e", "n", "t", "s">>, <<"c", "a", "l", "l", "e", "r">>}

\* the own properties of Object beside length and name
ObjectStatics == {
  <<"a", "s", "s", "i", "g", "n">>,
  <<"g", "e", "t", "O", "w", "n", "P", "r", "o", "p", "e", "r", "t", "y", "D", "e", "s", "c", "r", "i", "p", "t", "o", "r">>,
  <<"g", "e", "t", "O", "w", "n", "P", "r", "o", "p", "e", "r", "t", "y", "D", "e", "s", "c", "r", "i", "p", "t", "o", "r", "s">>,
  <<"g", "e", "t", "O", "w", "n", "P", "r", "o", "p", "e", "r", "t", "y", "N", "a", "m", "e", "s">>,
  <<"g", "e", "t", "O", "w", "n", "P", "r", "o", "p", "e", "r", "t", "y", "S", "y", "m", "b", "o", "l", "s">>,
  <<"h", "a", "s", "O", "w", "n">>,
  <<"i", "s">>,
  <<"p", "r", "e", "v", "e", "n", "t", "E", "x", "t", "e", "n", "s", "i", "o", "n", "s">>,
  <<"s", "e", "a", "l">>,
  <<"c", "r", "e", "a", "t", "e">>,
  <<"d", "e", "f", "i", "n", "e", "P", "r", "o", "p", "e", "r", "t", "i", "e", "s">>,
  <<"d", "e", "f", "i", "n", "e", "P", "r", "o", "p", "e", "r", "t", "y">>,
  <<"f", "r", "e", "e", "z", "e">>,
  <<"g", "e", "t", "P", "r", "o", "t", "o", "t", "y", "p", "e", "O", "f">>,
  <<"s", "e", "t", "P", "r", "o", "t", "o", "t", "y", "p", "e", "O", "f">>,
  <<"i", "s", "E", "x", "t", "e", "n", "s", "i", "b", "l", "e">>,
  <<"i", "s", "F", "r", "o", "z", "e", "n">>,
  <<"i", "s", "S", "e", "a", "l", "e", "d">>,
  <<"k", "e", "y", "s">>,
  <<"e", "n", "t", "r", "i", "e", "s">>,
  <<"f", "r", "o", "m", "E", "n", "t", "r", "i", "e", "s">>,
  <<"v", "a", "l", "u", "e", "s">>,
  <<"p", "r", "o", "t", "o", "t", "y", "p", "e">> }

IsObjectMethod(name) == \E k \in 1..Len(ObjectMethods) : ObjectMethods[k].name = name

MethodLength(name) ==
  ObjectMethods[CHOOSE k \in 1..Len(ObjectMethods) : ObjectMethods[k].name = name].length

\* The values of a read: the mean of row k of the table ("mean"), another
\* value that is truthy ("other"), a falsy one ("none"), or no value because
\* the read throws ("throws").
\* fn[name] for the method fn of Object.prototype
FunctionProperty(fn, name) ==
  IF name \in RestrictedNames THEN "throws"
  ELSE IF name = <<"l", "e", "n", "g", "t", "h">>
    THEN (IF MethodLength(fn) # 0 THEN "other" ELSE "none")
  ELSE IF \/ name = <<"n", "a", "m", "e">>
          \/ name = ProtoName
          \/ IsObjectMethod(name)
          \/ name \in FunctionMethods
          \/ fn = ObjectMethods[1].name /\ name \in ObjectStatics
    THEN "other"
  ELSE "none"

\* means[problemId]?.[representation]
MeanLookup(problemId, representation) ==
  Only({
         IF \E k \in 1..Len(table) : table[k].id = problemId
         THEN (IF \E k \in 1..Len(table) :
                    table[k].id = problemId /\ table[k].rep = representation
               THEN "mean"
               ELSE IF representation = ProtoName \/ IsObjectMethod(representation)
                 THEN "other"
               ELSE "none")
         ELSE IF problemId = ProtoName
           THEN (IF IsObjectMethod(representation) THEN "other" ELSE "none")
         ELSE IF IsObjectMethod(problemId)
           THEN FunctionProperty(problemId, representation)
         ELSE "none" : table \in {means}})

\* const m = means[problemId]?.[representation] || { t: 22.0, err: 0.3 }: the
\* properties t and err of m, which a value that is no mean does not have, and
\* whether the statement threw
MeanOf(problemId, representation) ==
  Only({
         IF found = "throws" THEN [t |-> Undefined, err |-> Undefined, threw |-> TRUE]
         ELSE IF found = "other" THEN [t |-> Undefined, err |-> Undefined, threw |-> FALSE]
         ELSE IF found = "mean"
           THEN LET k == CHOOSE j \in 1..Len(table) :
                           table[j].id = problemId /\ table[j].rep = representation
                IN  [t |-> table[k].t, err |-> table[k].err, threw |-> FALSE]
         ELSE [t |-> Dec(22, 0), err |-> Dec(3, -1), threw |-> FALSE]
             : found \in {MeanLookup(problemId, representation)}, table \in {means}})

\* synthesizeTrial, given the value z that randn() returns and the value u
\* that Math.random() returns for the error draw
synthesizeTrial(problemId, representation, z, u) ==
  Only({
         IF m.threw THEN [timeSec |-> NaN, correct |-> FALSE, threw |-> TRUE]
         ELSE LET timeSec == DecMax(FromInt(5),
                                    DecAdd(AsNumber(m.t), DecMul(z, Dec(12, -1))))
                  isError == DecLess(u, AsNumber(m.err))
              IN  [timeSec |-> round(timeSec, 2), correct |-> ~isError, threw |-> FALSE]
             : m \in {MeanOf(problemId, representation)}})

\* ------------------------------------------------------------------------
\* Experiment loop
\* ------------------------------------------------------------------------
FinalAnswerPrefix == <<".", ".", ".", "\n", "F", "i", "n", "a", "l", " ", "A", "n", "s", "w", "e", "r", ":", " ">>

\* a variant with trial_index: i
TrialRowZeroBased(problem, representation, i, latencySec, numeric, correct) ==
  [problem_id     |-> problem.id,
   topic          |-> problem.topic,
   representation |-> representation,
   trial_index    |-> i,
   latency_sec    |-> round(latencySec, 2),
   numeric_answer |-> numeric,
   expected_value |-> problem.expectedValue,
   units          |-> problem.units,
   correct        |-> correct]

\* the object that runTrials pushes onto rows (its timestamp is left out)
TrialRow(problem, representation, i, latencySec, numeric, correct) ==
  [problem_id     |-> problem.id,
   topic          |-> problem.topic,
   representation |-> representation,
   trial_index    |-> i + 1,
   latency_sec    |-> round(latencySec, 2),
   numeric_answer |-> numeric,
   expected_value |-> problem.expectedValue,
   units          |-> problem.units,
   correct        |-> correct]

\* the answer text of the dry-run branch
DryAnswerText(problem, correct) ==
  IF correct
  THEN FinalAnswerPrefix \o NumberToString(problem.expectedValue)
         \o <<" ">> \o problem.units
  ELSE FinalAnswerPrefix
         \o NumberToString(round(DecMul(problem.expectedValue, Dec(125, -2)), 3))
         \o <<" ">> \o problem.units

\* what an iteration leaves behind: the row pushed and the answer text, and
\* that it did not throw
Outcome(problem, representation, i, latencySec, answerText, numeric, correct) ==
  [row   |-> TrialRow(problem, representation, i, latencySec, numeric, correct),
   text  |-> answerText,
   threw |-> FALSE]

\* what an iteration leaves behind that throws: runTrials pushes no row
NoOutcome == [row |-> <<>>, text |-> <<>>, threw |-> TRUE]

\* a variant of the dry-run branch without latencySec = synth.timeSec
DryBranchKeepsLatency(problem, representation, i, synth, answerText) ==
  Outcome(problem, representation, i, Zero, answerText,
          extractFinalNumeric(answerText), synth.correct)

\* the dry-run branch once synthesizeTrial has returned synth
DryBranch(problem, representation, i, synth, answerText) ==
  Outcome(problem, representation, i, synth.timeSec, answerText,
          extractFinalNumeric(answerText), synth.correct)

DrySynth(problem, representation, i, synth) ==
  Only({ DryBranch(problem, representation, i, synth, answerText)
      : answerText \in {DryAnswerText(problem, synth.correct)}})

\* one iteration of the loop body with dryRun set
DryTrial(problem, representation, i, z, u) ==
  Only({ IF synth.threw THEN NoOutcome
         ELSE DrySynth(problem, representation, i, synth)
      : synth \in {synthesizeTrial(problem.id, representation, z, u)}})

\* the live branch once extractFinalNumeric has returned numeric
LiveBranch(problem, representation, i, answerText, latencySec, numeric) ==
  Outcome(problem, representation, i, latencySec, answerText, numeric,
          isWithinTolerance(numeric, problem.expectedValue, problem.toleranceRatio))

\* the rest of an iteration without dryRun, once answerText is known and
\* elapsedMs milliseconds have gone by since start
LiveTrial(problem, representation, i, answerText, elapsedMs) ==
  Only({ LiveBranch(problem, representation, i, answerText,
                    DecDiv(FromInt(elapsedMs), FromInt(1000)), numeric)
      : numeric \in {extractFinalNumeric(answerText)}})

\* ------------------------------------------------------------------------
\* aggregate
\* ------------------------------------------------------------------------
KeySep == <<"_", "_">>

key(r) == r.problem_id \o KeySep \o r.representation

\* the place of key k in the Map groups, 0 when groups has no such key
GroupIndex(groups, k) ==
  IF \E g \in 1..Len(groups) : groups[g].k = k
  THEN CHOOSE g \in 1..Len(groups) : groups[g].k = k
  ELSE 0

\* a variant of the loop body that also writes the key into the row
GroupStepWritesKey(st, i) ==
  Only({ Only({ Only({ IF g = 0
                       THEN [s EXCEPT !.groups = Append(@, [k |-> k, arr |-> <<s.rows[i]>>]),
                                      !.rows[i].problem_id = k]
                       ELSE [s EXCEPT !.groups[g].arr = Append(@, s.rows[i]),
                                      !.rows[i].problem_id = k]
                       : g \in {GroupIndex(s.groups, k)} })
                : k \in {key(s.rows[i])} })
         : s \in {st} })

\* the body of the first loop of aggregate for r = rows[i]: groups gets the
\* key k with an empty array when it has none, and r is pushed onto the array
\* of k; st holds the rows given and the Map groups (its keys in insertion
\* order), and nothing is written to the rows
GroupStep(st, i) ==
  Only({ Only({ Only({ IF g = 0
                       THEN [s EXCEPT !.groups = Append(@, [k |-> k, arr |-> <<s.rows[i]>>])]
                       ELSE [s EXCEPT !.groups[g].arr = Append(@, s.rows[i])]
                       : g \in {GroupIndex(s.groups, k)} })
                : k \in {key(s.rows[i])} })
         : s \in {st} })

\* the turns lo..hi of the first loop, in the order of the rows
RECURSIVE GroupRange(_, _, _)
GroupRange(st, lo, hi) ==
  IF lo > hi THEN st
  ELSE IF lo = hi THEN GroupStep(st, lo)
  ELSE GroupRange(GroupRange(st, lo, (lo + hi) \div 2), (lo + hi) \div 2 + 1, hi)

\* const groups = new Map() and the first loop: the rows and the Map after it
GroupRows(rows) == GroupRange([rows |-> rows, groups |-> <<>>], 1, Len(rows))

\* String.prototype.split('__')
RECURSIVE SplitKey(_)
SplitKey(t) ==
  Only({ LET hit(j) == j + 1 <= Len(s) /\ s[j] = "_" /\ s[j + 1] = "_"
         IN  IF \A j \in 1..Len(s) : ~hit(j) THEN <<s>>
             ELSE Only({ <<SubSeq(s, 1, j - 1)>> \o SplitKey(SubSeq(s, j + 2, Len(s)))
                         : j \in {CHOOSE q \in 1..Len(s) :
                                    hit(q) /\ \A h \in 1..(q - 1) : ~hit(h)} })
         : s \in {t} })

\* the turns lo..hi of latency.reduce((a, b) => a + b, ...), from the left
RECURSIVE SumRange(_, _, _, _)
SumRange(acc, latency, lo, hi) ==
  IF lo > hi THEN acc
  ELSE IF lo = hi THEN DecAdd(acc, latency[lo])
  ELSE SumRange(SumRange(acc, latency, lo, (lo + hi) \div 2), latency,
                (lo + hi) \div 2 + 1, hi)

\* latency.reduce((a, b) => a + b, 0)
SumLatency(latency) ==
  Only({ SumRange(Zero, l, 1, Len(l)) : l \in {latency} })

\* the object pushed onto aggregates for one entry of groups
AggregateOf(g) ==
  LET parts   == SplitKey(g.k)
      latency == [k \in 1..Len(g.arr) |-> g.arr[k].latency_sec]
      n       == Len(g.arr)
      good    == Len(SelectSeq(g.arr, LAMBDA x : x.correct))
  IN  [problem_id       |-> parts[1],
       topic            |-> g.arr[1].topic,
       representation   |-> parts[2],
       trials           |-> n,
       mean_latency_sec |-> round(DecDiv(SumLatency(latency), FromInt(n)), 2),
       error_rate       |-> round(DecSub(FromInt(1), DecDiv(FromInt(good), FromInt(n))), 3)]

\* a call of aggregate: the array it returns, and the rows it was given as
\* the call leaves them
aggregate(rows) ==
  Only({ [aggregates |-> [g \in 1..Len(st.groups) |-> AggregateOf(st.groups[g])],
          rows       |-> st.rows]
         : st \in {GroupRows(rows)} })

\* ------------------------------------------------------------------------
\* State
\* ------------------------------------------------------------------------
VARIABLES
  dryRun,      \* main: args.includes('--dry-run')
  hasKey,      \* whether OPENAI_API_KEY is a non-empty string
  trials,      \* main: the trial count
  chosen,      \* main: the representations to run, in order
  hasDocument, \* whether a global document is defined where the file is
               \* evaluated
  pc,          \* where main is: "main"; in runTrials between two iterations,
               \* "loop"; in callOpenAIChat at the await of fetch, "fetch", of
               \* res.text(), "text", of res.json(), "json"; "done" once it
               \* has settled; "crashed" once the process has ended with
               \* main suspended
  repIdx,      \* main: the index in chosen of the current representation
  pIdx,        \* runTrials: the index in problems of the current problem
  trialI,           \* runTrials: the loop variable i
  rows,        \* runTrials: rows
  allRows,     \* main: allRows
  aggregates,  \* main: what aggregate(allRows) returned
  written,     \* the files main has written
  exitCode,    \* -1 while main runs, then 0 (main resolved) or 1 (it
               \* rejected, or the evaluation of the file threw)
  inflight,    \* the number of requests sent that are still open: the
               \* response has not been read to its end, and the request has
               \* neither failed nor been aborted
  timer,       \* whether the abort timeout of callOpenAIChat is armed
  aborted,     \* controller.signal.aborted of the call that main is in
  fetches,     \* the number of requests sent so far
  log,         \* per iteration run so far: its answerText and the error
               \* caught, NoError if none
  deviations,  \* the number of iterations so far whose outcome was not the
               \* nominal one
  ex,          \* a call of extractFinalNumeric: its text, how the text was put
               \* together, and the value returned
  ck,          \* a call of isWithinTolerance: its arguments and its result
  sy,          \* a dry-run iteration on a problem of the data model: the
               \* problem, the draws and the outcome
  ag,          \* calls of aggregate: the rows given and the rows as the calls
               \* left them, where they are cut in two, and the aggregates
               \* returned for the whole and for the two parts
  pr,          \* a problem and the two prompts built for it
  gm           \* the page of an XAyBGame: the fields of the object and of the
               \* elements it uses

cfgVars == <<dryRun, hasKey, trials, chosen, hasDocument>>

runVars == <<cfgVars, pc, repIdx, pIdx, trialI, rows, allRows, aggregates, written,
             exitCode, inflight, timer, aborted, fetches, log, deviations>>

auxVars == <<ex, ck, sy, ag, pr, gm>>

vars == <<runVars, auxVars>>

\* ------------------------------------------------------------------------
\* LLM call: how a call of callOpenAIChat ends
\* ------------------------------------------------------------------------
\* An error is the record of its name and its message.
\* no error was thrown
NoError == [name |-> <<>>, message |-> <<>>]

\* new Error('Missing OPENAI_API_KEY')
MissingKeyError ==
  [name    |-> <<"E", "r", "r", "o", "r">>,
   message |-> <<"M", "i", "s", "s", "i", "n", "g", " ", "O", "P", "E", "N", "A", "I",
                 "_", "A", "P", "I", "_", "K", "E", "Y">>]

\* new Error(`OpenAI API error ${res.status}: ${text}`)
StatusError(status, text) ==
  [name    |-> <<"E", "r", "r", "o", "r">>,
   message |-> <<"O", "p", "e", "n", "A", "I", " ", "A", "P", "I", " ", "e", "r", "r",
                 "o", "r", " ">> \o status \o <<":", " ">> \o text]

\* the TypeError of a fetch that could not reach the service
NetworkError ==
  [name    |-> <<"T", "y", "p", "e", "E", "r", "r", "o", "r">>,
   message |-> <<"f", "e", "t", "c", "h", " ", "f", "a", "i", "l", "e", "d">>]

\* the AbortError of a request ended by controller.abort()
AbortError ==
  [name    |-> <<"A", "b", "o", "r", "t", "E", "r", "r", "o", "r">>,
   message |-> <<"T", "h", "i", "s", " ", "o", "p", "e", "r", "a", "t", "i", "o", "n",
                 " ", "w", "a", "s", " ", "a", "b", "o", "r", "t", "e", "d">>]

\* the SyntaxError of res.json() on a body that is no JSON
JsonError ==
  [name    |-> <<"S", "y", "n", "t", "a", "x", "E", "r", "r", "o", "r">>,
   message |-> <<"U", "n", "e", "x", "p", "e", "c", "t", "e", "d", " ", "e", "n", "d",
                 " ", "o", "f", " ", "J", "S", "O", "N", " ", "i", "n", "p", "u", "t">>]

\* the TypeError of a body whose connection broke while it was read
ReadError ==
  [name    |-> <<"T", "y", "p", "e", "E", "r", "r", "o", "r">>,
   message |-> <<"t", "e", "r", "m", "i", "n", "a", "t", "e", "d">>]

\* Error.prototype.toString
ErrorToString(e) ==
  IF e.message = <<>> THEN e.name
  ELSE IF e.name = <<>> THEN e.message
  ELSE e.name \o <<":", " ">> \o e.message

\* String(e.message || e)
CatchText(e) == IF e.message # <<>> THEN e.message ELSE ErrorToString(e)

\* the delay of setTimeout(() => controller.abort(), 120000)
TimeoutMs == 120000

\* The ways a call of callOpenAIChat ends: it returns the content of a
\* completion ("content") or '' for a reply without one ("empty"); or it
\* throws, for the missing key ("nokey"), for a status that is not ok
\* ("status"), because fetch rejects ("network"), because the request was
\* aborted ("abort"), because the body is no JSON ("json") or because reading
\* the body fails ("read").
Ends == {"content", "empty", "nokey", "status", "network", "abort", "json", "read"}

\* res.status and the text of the body of the reply that is not ok
ErrorReply == [status |-> <<"5", "0", "0">>, text |-> <<>>]

\* the error thrown by the call, NoError when it returns
Thrown(end) ==
  CASE end = "nokey"   -> MissingKeyError
    [] end = "status"  -> StatusError(ErrorReply.status, ErrorReply.text)
    [] end = "network" -> NetworkError
    [] end = "abort"   -> AbortError
    [] end = "json"    -> JsonError
    [] end = "read"    -> ReadError
    [] OTHER           -> NoError

\* the milliseconds from start to the end of the call, by the way it ends
ElapsedMs(end) ==
  CASE end = "content" -> 1255
    [] end = "empty"   -> 1255
    [] end = "nokey"   -> 0
    [] end = "status"  -> 250
    [] end = "network" -> 500
    [] end = "abort"   -> TimeoutMs
    [] end = "json"    -> 300
    [] end = "read"    -> 700

\* ------------------------------------------------------------------------
\* main and runTrials
\* ------------------------------------------------------------------------
\* the largest trial count of a run
MaxTrials == 2

\* the largest number of iterations of a run whose outcome is not the nominal
\* one (a call that fails or answers nothing, a draw other than NominalDraw),
\* in the runs of more than ShortRun iterations
MaxDeviations == 2

\* the runs of at most this many iterations are followed whatever the
\* outcomes of their iterations
ShortRun == 3

\* the values randn() is taken to return: 0 and one next to the least it can
\* return, -sqrt(-2 * log(2^-53)); and those Math.random() is taken to return
\* for the error draw
NoiseDraws == {Dec(0, 0), Dec(-857167434, -8)}
UniformDraws == {Dec(9, -1), Dec(1, -1)}
NominalDraw == [z |-> Dec(0, 0), u |-> Dec(9, -1)]

\* the content of a nominal completion, and the one for problems[p]
ModelAnswer(problem) == DryAnswerText(problem, TRUE)

ModelAnswers == [p \in 1..Len(problems) |-> ModelAnswer(problems[p])]

\* the bodies res.json() resolves with: a completion, or a reply without
\* choices
Completion(content) == [choices |-> <<[message |-> [content |-> content]]>>]

NoChoices == [choices |-> <<>>]

\* data?.choices?.[0]?.message?.content || ''
ContentOf(data) ==
  IF data.choices = <<>> THEN <<>> ELSE data.choices[1].message.content

\* what callOpenAIChat returns in the iteration on problems[p]
Returned(end, p) ==
  ContentOf(IF end = "content" THEN Completion(ModelAnswers[p]) ELSE NoChoices)

\* try { answerText = await callOpenAIChat(...) } catch (e) { answerText = ... }
AnswerText(end, p) ==
  IF Thrown(end) = NoError THEN Returned(end, p) ELSE CatchText(Thrown(end))

\* DryTrial and LiveTrial on the inputs of the iterations of a run, problems[p]
\* the problem: each outcome is computed once and looked up by the iterations
DryTrials ==
  [p \in 1..Len(problems), r \in {Linear, Septagon}, i \in 0..(MaxTrials - 1),
   z \in NoiseDraws, u \in UniformDraws |-> DryTrial(problems[p], r, i, z, u)]

LiveTrials ==
  [p \in 1..Len(problems), r \in {Linear, Septagon}, i \in 0..(MaxTrials - 1),
   end \in Ends |-> LiveTrial(problems[p], r, i, AnswerText(end, p), ElapsedMs(end))]

\* main: the representations chosen by --both, --linear and --septagon
Chosen(modeBoth, modeLinear, modeSeptagon) ==
  IF modeBoth \/ (~modeLinear /\ ~modeSeptagon) THEN <<Linear, Septagon>>
  ELSE (IF modeLinear THEN <<Linear>> ELSE <<>>)
         \o (IF modeSeptagon THEN <<Septagon>> ELSE <<>>)

InitRun ==
  /\ dryRun \in BOOLEAN
  /\ hasKey \in BOOLEAN
  /\ trials \in 0..MaxTrials
  /\ \E modeBoth \in BOOLEAN, modeLinear \in BOOLEAN, modeSeptagon \in BOOLEAN :
       chosen = Chosen(modeBoth, modeLinear, modeSeptagon)
  /\ hasDocument \in BOOLEAN
  /\ pc = "main"
  /\ repIdx = 1
  /\ pIdx = 1
  /\ trialI = 0
  /\ rows = <<>>
  /\ allRows = <<>>
  /\ aggregates = <<>>
  /\ written = {}
  /\ exitCode = -1
  /\ inflight = 0
  /\ timer = FALSE
  /\ aborted = FALSE
  /\ fetches = 0
  /\ log = <<>>
  /\ deviations = 0

\* the run variables of a specification that runs no main
RunIdle ==
  /\ dryRun = TRUE
  /\ hasKey = FALSE
  /\ trials = 0
  /\ chosen = <<>>
  /\ hasDocument = TRUE
  /\ pc = "idle"
  /\ repIdx = 1
  /\ pIdx = 1
  /\ trialI = 0
  /\ rows = <<>>
  /\ allRows = <<>>
  /\ aggregates = <<>>
  /\ written = {}
  /\ exitCode = -1
  /\ inflight = 0
  /\ timer = FALSE
  /\ aborted = FALSE
  /\ fetches = 0
  /\ log = <<>>
  /\ deviations = 0

ExtractIdle == [lines |-> <<>>, sep |-> <<"\n">>, text |-> <<>>,
                done |-> FALSE, result |-> Null]

CheckIdle == [actual |-> Null, expected |-> Zero, tol |-> Zero, lit |-> <<>>,
              k |-> 0, how |-> "none", done |-> FALSE, result |-> FALSE]

SynthIdle == [problem |-> problems[1], rep |-> Linear, z |-> Dec(0, 0),
              u |-> Dec(0, 0), done |-> FALSE, row |-> <<>>, text |-> <<>>,
              threw |-> FALSE]

AggIdle == [given |-> <<>>, rows |-> <<>>, cut |-> 0, calls |-> 0, out |-> <<>>,
            prev |-> <<>>, parts |-> FALSE, outA |-> <<>>, outB |-> <<>>]

PromptIdle == [problem |-> problems[1], done |-> FALSE, linear |-> <<>>,
               septagon |-> <<>>]

\* no page is loaded
GameIdle == [loaded |-> FALSE]

AuxIdle ==
  /\ ex = ExtractIdle /\ ck = CheckIdle /\ sy = SynthIdle /\ ag = AggIdle
  /\ pr = PromptIdle /\ gm = GameIdle

AtTrial == pc = "loop" /\ pIdx <= Len(problems) /\ trialI < trials

\* main is inside callOpenAIChat, at one of its awaits
InCall == pc \in {"fetch", "text", "json"}

\* The code after an await runs in a later turn of the event loop, which
\* comes once the evaluation of the file has reached its end: with a document
\* defined, that is.
\* main is suspended at an await: of runTrials, which has returned rows; of
\* callOpenAIChat, which has thrown for the missing key; or inside the call
Suspended ==
  \/ pc = "loop" /\ pIdx > Len(problems)
  \/ AtTrial /\ ~dryRun /\ ~hasKey
  \/ InCall

\* the end of an iteration: rows.push(...) and i++
Push(t, error) ==
  /\ trialI' = trialI + 1
  /\ rows' = Append(rows, t.row)
  /\ log' = Append(log, [text |-> t.text, error |-> error])

\* a step that makes the outcome of its iteration another than the nominal
\* one, when deviates holds
Deviate(deviates) ==
  /\ deviates =>
       \/ deviations < MaxDeviations
       \/ Len(chosen) * Len(problems) * trials <= ShortRun
  /\ deviations' = IF deviates THEN deviations + 1 ELSE deviations

\* main: const rows = await runTrials({ representation: rep, ... })
StartRunTrials ==
  /\ pc = "main" /\ repIdx <= Len(chosen)
  /\ pc' = "loop"
  /\ rows' = <<>>
  /\ pIdx' = 1
  /\ trialI' = 0
  /\ UNCHANGED <<cfgVars, repIdx, allRows, aggregates, written, exitCode, inflight,
                 timer, aborted, fetches, log, deviations, auxVars>>

\* a variant in which the dry-run iteration sends a request as well
DryRunTrialCalling ==
  /\ AtTrial /\ dryRun
  /\ \E z \in NoiseDraws, u \in UniformDraws :
       /\ Deviate([z |-> z, u |-> u] # NominalDraw)
       /\ \E t \in {DryTrials[pIdx, chosen[repIdx], trialI, z, u]} :
            IF t.threw
            THEN pc' = "done" /\ exitCode' = 1 /\ UNCHANGED <<trialI, rows, log>>
            ELSE Push(t, NoError) /\ UNCHANGED <<pc, exitCode>>
  /\ fetches' = fetches + 1
  /\ UNCHANGED <<cfgVars, repIdx, pIdx, allRows, aggregates, written, inflight, timer,
                 aborted, auxVars>>

\* runTrials: an iteration with dryRun set; runTrials rejects, and main with
\* it, when synthesizeTrial throws
DryRunTrial ==
  /\ AtTrial /\ dryRun
  /\ \E z \in NoiseDraws, u \in UniformDraws :
       /\ Deviate([z |-> z, u |-> u] # NominalDraw)
       /\ \E t \in {DryTrials[pIdx, chosen[repIdx], trialI, z, u]} :
            IF t.threw
            THEN pc' = "done" /\ exitCode' = 1 /\ UNCHANGED <<trialI, rows, log>>
            ELSE Push(t, NoError) /\ UNCHANGED <<pc, exitCode>>
  /\ UNCHANGED <<cfgVars, repIdx, pIdx, allRows, aggregates, written, inflight, timer,
                 aborted, fetches, auxVars>>

\* runTrials: an iteration without dryRun, when callOpenAIChat has thrown for
\* the missing key, before it arms the timeout: the await throws, and the
\* catch clause takes the message as the answer
MissingKeyTrial ==
  /\ AtTrial /\ ~dryRun /\ ~hasKey /\ hasDocument
  /\ Push(LiveTrials[pIdx, chosen[repIdx], trialI, "nokey"], Thrown("nokey"))
  /\ UNCHANGED <<cfgVars, pc, repIdx, pIdx, allRows, aggregates, written, exitCode,
                 inflight, timer, aborted, fetches, deviations, auxVars>>

\* a variant that sends the request of the next trial along with this one
StartCallBatch ==
  /\ AtTrial /\ ~dryRun /\ hasKey
  /\ pc' = "fetch"
  /\ timer' = TRUE
  /\ aborted' = FALSE
  /\ inflight' = inflight + 2
  /\ fetches' = fetches + 2
  /\ UNCHANGED <<cfgVars, repIdx, pIdx, trialI, rows, allRows, aggregates, written,
                 exitCode, log, deviations, auxVars>>

\* runTrials: an iteration without dryRun up to the await of fetch in
\* callOpenAIChat: a new controller, the timeout armed and the request sent
StartCall ==
  /\ AtTrial /\ ~dryRun /\ hasKey
  /\ pc' = "fetch"
  /\ timer' = TRUE
  /\ aborted' = FALSE
  /\ inflight' = inflight + 1
  /\ fetches' = fetches + 1
  /\ UNCHANGED <<cfgVars, repIdx, pIdx, trialI, rows, allRows, aggregates, written,
                 exitCode, log, deviations, auxVars>>

\* a variant that goes back to send the request again after an error
EndCallRetry(end) ==
  /\ pc' = "loop"
  /\ timer' = FALSE
  /\ aborted' = FALSE
  /\ IF Thrown(end) = NoError
     THEN Push(LiveTrials[pIdx, chosen[repIdx], trialI, end], Thrown(end))
     ELSE UNCHANGED <<rows, log, trialI>>
  /\ UNCHANGED exitCode

\* a variant without the catch clause: an error ends the run
EndCallUncaught(end) ==
  /\ timer' = FALSE
  /\ aborted' = FALSE
  /\ IF Thrown(end) = NoError
     THEN /\ pc' = "loop"
          /\ Push(LiveTrials[pIdx, chosen[repIdx], trialI, end], Thrown(end))
          /\ UNCHANGED exitCode
     ELSE /\ pc' = "done"
          /\ exitCode' = 1
          /\ UNCHANGED <<rows, log, trialI>>

\* callOpenAIChat from the await that ends it on, and the rest of the
\* iteration: the finally clause clears the timeout, runTrials takes what the
\* call returned or the text of what it threw as answerText, and pushes the row
EndCall(end) ==
  /\ pc' = "loop"
  /\ timer' = FALSE
  /\ aborted' = FALSE
  /\ Push(LiveTrials[pIdx, chosen[repIdx], trialI, end], Thrown(end))
  /\ UNCHANGED exitCode

\* fetch resolves with res, and callOpenAIChat goes on to the await of
\* res.json() when res.ok, of res.text() otherwise; the body is still to come
FetchResolves ==
  /\ pc = "fetch" /\ ~aborted /\ hasDocument
  /\ \E ok \in BOOLEAN :
       /\ Deviate(~ok)
       /\ pc' = IF ok THEN "json" ELSE "text"
  /\ UNCHANGED <<cfgVars, repIdx, pIdx, trialI, rows, allRows, aggregates, written,
                 exitCode, inflight, timer, aborted, fetches, log, auxVars>>

\* fetch rejects: the request failed
FetchRejects ==
  /\ pc = "fetch" /\ ~aborted /\ hasDocument
  /\ Deviate(TRUE)
  /\ inflight' = inflight - 1
  /\ EndCall("network")
  /\ UNCHANGED <<cfgVars, repIdx, pIdx, allRows, aggregates, written, fetches, auxVars>>

\* res.text() resolves: throw new Error(`OpenAI API error ...`)
TextResolves ==
  /\ pc = "text" /\ ~aborted
  /\ inflight' = inflight - 1
  /\ EndCall("status")
  /\ UNCHANGED <<cfgVars, repIdx, pIdx, allRows, aggregates, written, fetches,
                 deviations, auxVars>>

\* res.json() resolves with data: the content of the completion is returned,
\* or '' when data has none
JsonResolves ==
  /\ pc = "json" /\ ~aborted
  /\ inflight' = inflight - 1
  /\ \E end \in {"content", "empty"} :
       /\ Deviate(end = "empty")
       /\ EndCall(end)
  /\ UNCHANGED <<cfgVars, repIdx, pIdx, allRows, aggregates, written, fetches, auxVars>>

\* res.text() or res.json() rejects: the body could not be read to its end,
\* or what res.json() read is no JSON
BodyRejects ==
  /\ pc \in {"text", "json"} /\ ~aborted
  /\ inflight' = inflight - 1
  /\ Deviate(pc = "json")
  /\ \E end \in (IF pc = "json" THEN {"json", "read"} ELSE {"read"}) : EndCall(end)
  /\ UNCHANGED <<cfgVars, repIdx, pIdx, allRows, aggregates, written, fetches, auxVars>>

\* the timeout fires while the call is at one of its awaits: the callback
\* runs controller.abort(), which ends the request and rejects the promise
\* that the call awaits
TimeoutFires ==
  /\ InCall /\ timer /\ ~aborted /\ hasDocument
  /\ Deviate(pc # "text")
  /\ aborted' = TRUE
  /\ timer' = FALSE
  /\ inflight' = inflight - 1
  /\ UNCHANGED <<cfgVars, pc, repIdx, pIdx, trialI, rows, allRows, aggregates, written,
                 exitCode, fetches, log, auxVars>>

\* the await of the aborted call throws the AbortError
CallAborted ==
  /\ InCall /\ aborted
  /\ EndCall("abort")
  /\ UNCHANGED <<cfgVars, repIdx, pIdx, allRows, aggregates, written, inflight,
                 fetches, deviations, auxVars>>

\* runTrials: the inner loop ends, the outer loop takes the next problem
NextProblem ==
  /\ pc = "loop" /\ pIdx <= Len(problems) /\ trialI >= trials
  /\ pIdx' = pIdx + 1
  /\ trialI' = 0
  /\ UNCHANGED <<cfgVars, pc, repIdx, rows, allRows, aggregates, written, exitCode,
                 inflight, timer, aborted, fetches, log, deviations, auxVars>>

\* runTrials returns rows; main: allRows.push(...rows)
ReturnRows ==
  /\ pc = "loop" /\ pIdx > Len(problems) /\ hasDocument
  /\ allRows' = allRows \o rows
  /\ rows' = <<>>
  /\ repIdx' = repIdx + 1
  /\ pc' = "main"
  /\ UNCHANGED <<cfgVars, pIdx, trialI, aggregates, written, exitCode, inflight,
                 timer, aborted, fetches, log, deviations, auxVars>>

\* the steps of the output of main, in order, and "end" for its end
OutputSteps == <<"ensureDir", "csv", "summary", "end">>

\* main: the output. ensureDir or one of the two writeFileSync may throw, and
\* then main rejects and the process exits with 1; aggregate(allRows) is
\* called before the summary is written
WriteOutput ==
  /\ pc = "main" /\ repIdx > Len(chosen)
  /\ pc' = "done"
  /\ \E stop \in 1..Len(OutputSteps) :
       /\ exitCode' = IF OutputSteps[stop] = "end" THEN 0 ELSE 1
       /\ written' = {OutputSteps[k] : k \in 2..(stop - 1)}
       /\ IF stop >= 3
          THEN \E call \in {aggregate(allRows)} :
                 aggregates' = call.aggregates /\ allRows' = call.rows
          ELSE UNCHANGED <<aggregates, allRows>>
  /\ UNCHANGED <<cfgVars, repIdx, pIdx, trialI, rows, inflight, timer, aborted,
                 fetches, log, deviations, auxVars>>

\* the last statement of the file, document.addEventListener(...), where no
\* document is defined: it is reached when main, called before it, is
\* suspended at its first await, and the ReferenceError it throws ends the
\* process with exit code 1. main does not go on: the request it may have
\* sent and its timeout end with the process, and nothing is written
ModuleThrows ==
  /\ ~hasDocument /\ Suspended
  /\ pc' = "crashed"
  /\ exitCode' = 1
  /\ inflight' = 0
  /\ timer' = FALSE
  /\ UNCHANGED <<cfgVars, repIdx, pIdx, trialI, rows, allRows, aggregates, written,
                 aborted, fetches, log, deviations, auxVars>>

Init == InitRun /\ AuxIdle

Next ==
  \/ StartRunTrials
  \/ DryRunTrial
  \/ MissingKeyTrial
  \/ StartCall
  \/ FetchResolves
  \/ FetchRejects
  \/ TextResolves
  \/ JsonResolves
  \/ BodyRejects
  \/ TimeoutFires
  \/ CallAborted
  \/ NextProblem
  \/ ReturnRows
  \/ WriteOutput
  \/ ModuleThrows

Spec == Init /\ [][Next]_vars

\* the runs in which the event loop goes on running what is ready, and a call
\* that is open ends: its awaits settle, by the abort of the timeout at the
\* latest
SpecLive == Init /\ [][Next]_vars /\ WF_vars(Next)

\* ------------------------------------------------------------------------
\* Calls of extractFinalNumeric on response texts
\* ------------------------------------------------------------------------
\* A text is made of at most MaxLines lines. A line is a marker (or none)
\* followed by a body "X unit"; with a marker, one space separates the two.
MaxLines == 2

\* the ways a line can start: with no marker, or with one of four spellings
\* of the final-answer marker, the last after a form feed and a no-break
\* space
MarkerNames == {"none", "plain", "case", "gap", "wide"}

MarkerText(name) ==
  CASE name = "none"  -> <<>>
    [] name = "plain" -> <<"F", "i", "n", "a", "l", " ", "A", "n", "s", "w", "e", "r", ":">>
    [] name = "case"  -> <<" ", " ", "f", "i", "n", "a", "l", " ", "A", "N", "S", "W", "E", "R", ":">>
    [] name = "gap"   -> <<"F", "i", "n", "a", "l", " ", "A", "n", "s", "w", "e", "r", " ", ":">>
    [] name = "wide"  -> <<"\f", "U+00A0", "F", "i", "n", "a", "l", " ", "A", "n", "s", "w", "e", "r", ":">>

\* the bodies, each with what is known of it by construction: the number X
\* that its first word denotes (nil when it denotes none), whether X is
\* written the way the numeric pattern reads it (a digit first, after an
\* optional minus sign), the number that the first numeric match of the body
\* denotes (nil when nothing matches), and whether that number is a finite
\* double
Huge == Infinity(FALSE)

Bodies == <<
  [chars |-> <<"5", " ", "m">>, x |-> Dec(5, 0), plain |-> TRUE,
   first |-> Dec(5, 0), finite |-> TRUE],
  [chars |-> <<"1", ",", "2", "3", "4", ".", "5", " ", "J">>, x |-> Dec(12345, -1), plain |-> TRUE,
   first |-> Dec(12345, -1), finite |-> TRUE],
  [chars |-> <<"-", "2", ".", "5", "E", "-", "3", " ", "T">>, x |-> Dec(-25, -4), plain |-> TRUE,
   first |-> Dec(-25, -4), finite |-> TRUE],
  [chars |-> <<"n", "/", "a">>, x |-> Null, plain |-> FALSE,
   first |-> Null, finite |-> TRUE],
  [chars |-> <<".", "5", " ", "m">>, x |-> Dec(5, -1), plain |-> FALSE,
   first |-> Dec(5, 0), finite |-> TRUE],
  [chars |-> <<"1", "e", "9", "9", "9", " ", "J">>, x |-> Huge, plain |-> TRUE,
   first |-> Huge, finite |-> FALSE] >>

LineSeps == {<<"\n">>, <<"\r", "\n">>}

LineDescs == [marker : MarkerNames, body : 1..Len(Bodies)]

LineText(d) ==
  IF d.marker = "none" THEN Bodies[d.body].chars
  ELSE MarkerText(d.marker) \o <<" ">> \o Bodies[d.body].chars

RECURSIVE JoinLines(_, _)
JoinLines(ds, sep) ==
  IF ds = <<>> THEN <<>>
  ELSE IF Len(ds) = 1 THEN LineText(ds[1])
  ELSE LineText(ds[1]) \o sep \o JoinLines(Tail(ds), sep)

RECURSIVE SeqsUpTo(_, _)
SeqsUpTo(S, n) ==
  IF n = 0 THEN {<<>>}
  ELSE LET shorter == SeqsUpTo(S, n - 1)
       IN  shorter \cup {Append(q, x) : q \in {r \in shorter : Len(r) = n - 1}, x \in S}

InitExtract ==
  /\ RunIdle
  /\ ck = CheckIdle /\ sy = SynthIdle /\ ag = AggIdle
  /\ pr = PromptIdle /\ gm = GameIdle
  /\ \E ds \in SeqsUpTo(LineDescs, MaxLines), sep \in LineSeps :
       ex = [lines |-> ds, sep |-> sep, text |-> JoinLines(ds, sep),
             done |-> FALSE, result |-> Null]

\* numeric = extractFinalNumeric(answerText)
CallExtract ==
  /\ ~ex.done
  /\ ex' = [ex EXCEPT !.done = TRUE, !.result = extractFinalNumeric(ex.text)]
  /\ UNCHANGED <<runVars, ck, sy, ag, pr, gm>>

NextExtract == CallExtract

SpecExtract == InitExtract /\ [][NextExtract]_vars

\* ------------------------------------------------------------------------
\* Calls of isWithinTolerance
\* ------------------------------------------------------------------------
\* the numbers of a call are written as decimal literals, [m, e] for m * 10^e
RECURSIVE Pow10(_)
Pow10(n) == IF n <= 0 THEN 1 ELSE 10 * Pow10(n - 1)

Lit(m, e) == [m |-> m, e |-> e]

\* the number that the literal l denotes
LitNumber(l) == Dec(l.m, l.e)

CheckExpected == {Lit(0, 0), Lit(5, 0), Lit(-5, 0), Lit(12, -6), Lit(17285, -1)}

CheckTols == {Lit(5, -2), Lit(1, -1), Lit(3, -1), Lit(1, 0)}

CheckGiven == {Lit(0, 0), Lit(1, -3), Lit(65, -1)}

\* actual is placed k half-widths of the tolerance band away from expected,
\* for k from -MaxSteps to MaxSteps
MaxSteps == 3

\* the literal of expected + k * (|expected| * tol / 2), for tol.e <= 1
Placed(expected, tol, k) ==
  Lit(expected.m * Pow10(1 - tol.e) + 5 * k * Abs(expected.m) * tol.m,
      expected.e + tol.e - 1)

\* a call with the numbers that the literals a, x and t denote
CheckCall(a, x, t, k, how) ==
  [actual |-> LitNumber(a), expected |-> LitNumber(x), tol |-> LitNumber(t),
   lit |-> [a |-> a, x |-> x, t |-> t], k |-> k, how |-> how,
   done |-> FALSE, result |-> FALSE]

InitChecker ==
  /\ RunIdle
  /\ ex = ExtractIdle /\ sy = SynthIdle /\ ag = AggIdle
  /\ pr = PromptIdle /\ gm = GameIdle
  /\ \E expected \in CheckExpected, tol \in CheckTols :
       \/ ck = [CheckCall(Lit(0, 0), expected, tol, 0, "null") EXCEPT !.actual = Null]
       \/ \E a \in CheckGiven : ck = CheckCall(a, expected, tol, 0, "given")
       \/ \E k \in (-MaxSteps)..MaxSteps :
            ck = CheckCall(Placed(expected, tol, k), expected, tol, k, "placed")

\* correct = isWithinTolerance(numeric, problem.expectedValue, problem.toleranceRatio)
CallCheck ==
  /\ ~ck.done
  /\ ck' = [ck EXCEPT !.done = TRUE,
                      !.result = isWithinTolerance(ck.actual, ck.expected, ck.tol)]
  /\ UNCHANGED <<runVars, ex, sy, ag, pr, gm>>

NextChecker == CallCheck

SpecChecker == InitChecker /\ [][NextChecker]_vars

\* ------------------------------------------------------------------------
\* Dry-run iterations on the problems of the data model
\* ------------------------------------------------------------------------
\* a problem identifier that the table of means does not know
OtherId == <<"p">>

\* identifiers: of the table, not of it, and not of it but the name of a
\* property that the table inherits
ModelIds == {problems[1].id, problems[2].id, OtherId, ObjectMethods[1].name}

\* expected values, the last two so large that 1.25 times the value, times
\* 1000, is beyond the doubles
ModelExpected == {Dec(5, 0), Dec(0, 0), Dec(-5, 0), Dec(12, -6), Dec(17285, -1),
                  Dec(1, 306), Dec(-15, 304)}

\* tolerance ratios in (0, 1]
ModelTols == {Dec(5, -2), Dec(1, -1), Dec(25, -2), Dec(1, 0)}

ModelProblems ==
  {[id |-> id, topic |-> "Topic", statement |-> "Statement",
    expectedValue |-> e, toleranceRatio |-> t, units |-> <<"J">>,
    septagonNodes |-> <<"node">>] :
     id \in ModelIds, e \in ModelExpected, t \in ModelTols}

\* the values randn() is taken to return in these iterations, from next to
\* the least it can return to next to the greatest
SynthNoise == NoiseDraws \cup {Dec(2, 0), Dec(-5, 0), Dec(-25, -1), Dec(857167434, -8)}

InitSynth ==
  /\ RunIdle
  /\ ex = ExtractIdle /\ ck = CheckIdle /\ ag = AggIdle
  /\ pr = PromptIdle /\ gm = GameIdle
  /\ \E problem \in ModelProblems, rep \in {Linear, Septagon},
        z \in SynthNoise, u \in UniformDraws :
       sy = [problem |-> problem, rep |-> rep, z |-> z, u |-> u,
             done |-> FALSE, row |-> <<>>, text |-> <<>>, threw |-> FALSE]

SynthDone(t) ==
  sy' = [sy EXCEPT !.done = TRUE, !.row = t.row, !.text = t.text, !.threw = t.threw]

\* runTrials: the first iteration with dryRun set, on sy.problem
DryIteration ==
  /\ ~sy.done
  /\ SynthDone(DryTrial(sy.problem, sy.rep, 0, sy.z, sy.u))
  /\ UNCHANGED <<runVars, ex, ck, ag, pr, gm>>

NextSynth == DryIteration

SpecSynth == InitSynth /\ [][NextSynth]_vars

\* ------------------------------------------------------------------------
\* Calls of aggregate on arbitrary rows
\* ------------------------------------------------------------------------
\* the largest number of rows of a sequence of rows of any keys and flags
\* given to aggregate
MaxRows == 3

\* the latency of the k-th row of a sequence given to aggregate
RowLatencies == <<Dec(213, -1), Dec(1877, -2), Dec(25555, -3), Dec(5, 0), Dec(120, 0),
                  Dec(1, 0), Dec(101, -2)>>

\* the k-th row of a sequence given to aggregate
RowOf(c, k) ==
  [problem_id     |-> c.id,
   topic          |-> "Topic",
   representation |-> c.rep,
   trial_index    |-> k,
   latency_sec    |-> RowLatencies[((k - 1) % Len(RowLatencies)) + 1],
   numeric_answer |-> Null,
   expected_value |-> FromInt(5),
   units          |-> <<"J">>,
   correct        |-> c.correct]

\* rows of one pair with either flag, and rows of two other pairs whose keys
\* are the same text
RowChoices ==
  {[id |-> <<"a">>, rep |-> <<"c">>, correct |-> TRUE],
   [id |-> <<"a">>, rep |-> <<"c">>, correct |-> FALSE],
   [id |-> <<"a", "_", "_", "b">>, rep |-> <<"c">>, correct |-> TRUE],
   [id |-> <<"a">>, rep |-> <<"b", "_", "_", "c">>, correct |-> FALSE]}

\* the lengths of the sequences of rows of one pair given to aggregate, all
\* rows but the last with the flag set: the error rate is 1/16 and 1/80,
\* both halfway between two numbers of thousandths
TieLengths == {16, 16 * 5}

\* the sequences of rows given to aggregate, as the choices of their rows
RowInputs ==
  SeqsUpTo(RowChoices, MaxRows)
    \cup {[k \in 1..len |-> [id |-> <<"a">>, rep |-> <<"c">>, correct |-> k < len]] :
            len \in TieLengths}

\* where a sequence of len rows is cut in two
Cuts(len) == IF len <= MaxRows THEN 0..len ELSE {0, 1, len \div 2, len}

InitAggregate ==
  /\ RunIdle
  /\ ex = ExtractIdle /\ ck = CheckIdle /\ sy = SynthIdle
  /\ pr = PromptIdle /\ gm = GameIdle
  /\ \E cs \in RowInputs :
       \E cut \in Cuts(Len(cs)) :
         ag = [AggIdle EXCEPT !.given = [k \in 1..Len(cs) |-> RowOf(cs[k], k)],
                              !.rows = [k \in 1..Len(cs) |-> RowOf(cs[k], k)],
                              !.cut = cut]

\* the largest number of calls of aggregate on the same rows
MaxCalls == 2

\* aggregate(rows), on the rows as the calls before left them
AggregateAll ==
  /\ ag.calls < MaxCalls
  /\ \E call \in {aggregate(ag.rows)} :
       ag' = [ag EXCEPT !.calls = ag.calls + 1, !.prev = ag.out,
                        !.out = call.aggregates, !.rows = call.rows]
  /\ UNCHANGED <<runVars, ex, ck, sy, pr, gm>>

\* aggregate of the first ag.cut rows and aggregate of the rest
AggregateParts ==
  /\ ~ag.parts
  /\ ag' = [ag EXCEPT !.parts = TRUE,
                      !.outA = aggregate(SubSeq(ag.rows, 1, ag.cut)).aggregates,
                      !.outB = aggregate(SubSeq(ag.rows, ag.cut + 1, Len(ag.rows))).aggregates]
  /\ UNCHANGED <<runVars, ex, ck, sy, pr, gm>>

NextAggregate == AggregateAll \/ AggregateParts

SpecAggregate == InitAggregate /\ [][NextAggregate]_vars

\* ------------------------------------------------------------------------
\* Calls of buildLinearPrompt and buildSeptagonPrompt
\* ------------------------------------------------------------------------
\* the largest number of nodes of a problem other than those of the catalog
MaxNodes == 3

PromptStatements == {"A 1 kg mass falls 2 m. Find its speed.", "Statement"}

PromptNodes == {"mass m = 1 kg", "height h = 2 m", "target: speed v"}

\* the problems of the catalog, and problems of the same shape with other
\* statements and nodes
PromptProblems ==
  {problems[k] : k \in 1..Len(problems)}
    \cup {[id |-> OtherId, topic |-> "Topic", statement |-> st,
            expectedValue |-> Dec(5, 0), toleranceRatio |-> Dec(5, -2),
            units |-> <<"J">>, septagonNodes |-> ns] :
             st \in PromptStatements, ns \in SeqsUpTo(PromptNodes, MaxNodes)}

InitPrompt ==
  /\ RunIdle
  /\ ex = ExtractIdle /\ ck = CheckIdle /\ sy = SynthIdle /\ ag = AggIdle
  /\ gm = GameIdle
  /\ \E problem \in PromptProblems :
       pr = [problem |-> problem, done |-> FALSE, linear |-> <<>>, septagon |-> <<>>]

\* buildLinearPrompt(problem) and buildSeptagonPrompt(problem)
BuildPrompts ==
  /\ ~pr.done
  /\ pr' = [pr EXCEPT !.done = TRUE,
                      !.linear = buildLinearPrompt(pr.problem),
                      !.septagon = buildSeptagonPrompt(pr.problem)]
  /\ UNCHANGED <<runVars, ex, ck, sy, ag, gm>>

NextPrompt == BuildPrompts

SpecPrompt == InitPrompt /\ [][NextPrompt]_vars

\* ------------------------------------------------------------------------
\* XAyBGame
\* ------------------------------------------------------------------------
\* this.maxAttempts
maxAttempts == 10

\* the most message timeouts pending at once
MaxTimers == 1

\* String.prototype.trim, the left end
RECURSIVE TrimLeft(_)
TrimLeft(s) == IF s # <<>> /\ IsSpace(Head(s)) THEN TrimLeft(Tail(s)) ELSE s

\* String.prototype.trim, the right end
RECURSIVE TrimRight(_)
TrimRight(s) ==
  IF s # <<>> /\ IsSpace(s[Len(s)]) THEN TrimRight(SubSeq(s, 1, Len(s) - 1)) ELSE s

Trim(s) == TrimRight(TrimLeft(s))

AllIn(s, cs) == \A i \in 1..Len(s) : s[i] \in cs

DecDigits == {Digits[d] : d \in 1..10}

\* digits, digits with a fraction part ("1.", "1.5"), or a fraction alone (".5")
IsMantissa(s) ==
  \/ s # <<>> /\ AllIn(s, DecDigits)
  \/ /\ Len(s) > 1
     /\ \E k \in 1..Len(s) :
          /\ s[k] = "."
          /\ AllIn(SubSeq(s, 1, k - 1), DecDigits)
          /\ AllIn(SubSeq(s, k + 1, Len(s)), DecDigits)

\* the digits of an exponent, with an optional sign
IsExponentDigits(s) ==
  /\ s # <<>>
  /\ IF Head(s) \in {"+", "-"}
     THEN Tail(s) # <<>> /\ AllIn(Tail(s), DecDigits)
     ELSE AllIn(s, DecDigits)

\* an unsigned decimal literal of a string converted to a number
IsUnsignedDecimal(s) ==
  \/ s = <<"I", "n", "f", "i", "n", "i", "t", "y">>
  \/ IsMantissa(s)
  \/ \E k \in 2..(Len(s) - 1) :
       /\ s[k] \in {"e", "E"}
       /\ IsMantissa(SubSeq(s, 1, k - 1))
       /\ IsExponentDigits(SubSeq(s, k + 1, Len(s)))

\* a hexadecimal, octal or binary literal of a string converted to a number
IsNonDecimal(s) ==
  /\ Len(s) >= 3
  /\ s[1] = "0"
  /\ \/ /\ s[2] \in {"x", "X"}
        /\ AllIn(SubSeq(s, 3, Len(s)),
                 DecDigits \cup {"a", "b", "c", "d", "e", "f",
                                 "A", "B", "C", "D", "E", "F"})
     \/ /\ s[2] \in {"o", "O"}
        /\ AllIn(SubSeq(s, 3, Len(s)), {"0", "1", "2", "3", "4", "5", "6", "7"})
     \/ /\ s[2] \in {"b", "B"}
        /\ AllIn(SubSeq(s, 3, Len(s)), {"0", "1"})

\* whether Number(s) is a number for a string s without white space around it
IsNumericLiteral(s) ==
  \/ s = <<>>
  \/ IsNonDecimal(s)
  \/ IsUnsignedDecimal(s)
  \/ s # <<>> /\ Head(s) \in {"+", "-"} /\ IsUnsignedDecimal(Tail(s))

\* isNaN of a string: Number(s) is NaN
isNaN(s) == ~IsNumericLiteral(Trim(s))

\* the message validateGuess shows, "" when it shows none
ValidationMessage(guess) ==
  IF guess = <<>> THEN "Please enter a number!"
  ELSE IF Len(guess) # 3 THEN "Please enter exactly 3 digits!"
  ELSE IF isNaN(guess) THEN "Please enter a valid number!"
  ELSE IF Cardinality({guess[i] : i \in 1..Len(guess)}) # Len(guess)
       THEN "All digits must be different!"
  ELSE ""

validateGuess(guess) == ValidationMessage(guess) = ""

\* a: the positions of guess that hold the digit of the secret; b: those
\* that hold a digit the secret has elsewhere
calculateXAyB(secretNumber, guess) ==
  [a |-> Cardinality({i \in 1..3 : secretNumber[i] = guess[i]}),
   b |-> Cardinality({i \in 1..3 :
                        /\ secretNumber[i] # guess[i]
                        /\ \E j \in 1..Len(secretNumber) :
                             secretNumber[j] = guess[i]})]

NoMessage == [text |-> "", arg |-> <<>>, class |-> "message"]

\* showMessage: the text and class are set and a timeout of 3 seconds is armed
showMessage(g, text, arg, type) ==
  [g EXCEPT !.message = [text |-> text, arg |-> arg, class |-> type],
            !.timers = @ + 1]

\* the list of guesses: empty, or one element for each guess
renderGuesses(guesses) ==
  [empty |-> guesses = <<>>,
   items |-> [k \in 1..Len(guesses) |->
                [attempt |-> NatChars(guesses[k].attempt),
                 guess |-> guesses[k].guess,
                 resultText |-> NatChars(guesses[k].result.a) \o <<"A">>
                                  \o NatChars(guesses[k].result.b) \o <<"B">>]]]

updateDisplay(g) ==
  [g EXCEPT !.attemptCount = NatChars(g.attempts),
            !.guessesList = renderGuesses(g.guesses)]

checkGameEnd(g, result) ==
  IF result.a = 3
  THEN showMessage([g EXCEPT !.gameOver = TRUE, !.submitDisabled = TRUE],
                   "Congratulations! You won in ${this.attempts} attempts!",
                   NatChars(g.attempts), "message success")
  ELSE IF g.attempts >= maxAttempts
  THEN showMessage([g EXCEPT !.gameOver = TRUE, !.submitDisabled = TRUE],
                   "Game Over! The secret number was ${this.secretNumber}",
                   g.secretNumber, "message error")
  ELSE g

\* submitGuess from the accepted guess on: attempts++, guesses.push(...),
\* updateDisplay(), checkGameEnd(result) and the input emptied
AcceptGuess(g, guess, result) ==
  [checkGameEnd(
     updateDisplay([g EXCEPT !.attempts = @ + 1,
                             !.guesses = Append(@, [guess |-> guess,
                                                    result |-> result,
                                                    attempt |-> g.attempts + 1])]),
     result)
     EXCEPT !.input = <<>>]

\* a variant of submitGuess that does not return when gameOver is set
submitGuessAfterEnd(g) ==
  Only({
         IF ~validateGuess(guess)
         THEN showMessage(g, ValidationMessage(guess), <<>>, "message error")
         ELSE AcceptGuess(g, guess, calculateXAyB(g.secretNumber, guess))
             : guess \in {Trim(g.input)}})

submitGuess(g) ==
  IF g.gameOver THEN g
  ELSE Only({
              IF ~validateGuess(guess)
              THEN showMessage(g, ValidationMessage(guess), <<>>, "message error")
              ELSE AcceptGuess(g, guess, calculateXAyB(g.secretNumber, guess))
                  : guess \in {Trim(g.input)}})

startNewGame(g, secretNumber) ==
  updateDisplay([g EXCEPT !.secretNumber = secretNumber,
                          !.attempts = 0,
                          !.gameOver = FALSE,
                          !.guesses = <<>>,
                          !.input = <<>>,
                          !.submitDisabled = FALSE,
                          !.message = NoMessage])

\* whether generateSecretNumber can return s: three different digits
IsSecretNumber(s) ==
  /\ Len(s) = 3
  /\ AllIn(s, DecDigits)
  /\ Cardinality({s[i] : i \in 1..3}) = 3

\* the secret numbers drawn
Secrets == {<<"1", "2", "3">>, <<"1", "3", "2">>}

\* what the player types into the input
TypedGuesses ==
  { <<>>,
    <<"1", "2">>,
    <<"1", "1", "2">>,
    <<"a", "b", "c">>,
    <<"1", "2", "3">>,
    <<" ", "1", "3", "2", " ">>,
    <<"\f", "1", "2", "3", "U+00A0">>,
    <<"1", "e", "5">> }

\* new XAyBGame() once the page is loaded
NewGame(secretNumber) ==
  updateDisplay([loaded |-> TRUE,
                 secretNumber |-> secretNumber,
                 attempts |-> 0,
                 gameOver |-> FALSE,
                 guesses |-> <<>>,
                 input |-> <<>>,
                 submitDisabled |-> FALSE,
                 message |-> NoMessage,
                 timers |-> 0,
                 attemptCount |-> <<>>,
                 guessesList |-> [empty |-> TRUE, items |-> <<>>],
                 last |-> "load"])

InitGame ==
  /\ RunIdle
  /\ ex = ExtractIdle /\ ck = CheckIdle /\ sy = SynthIdle /\ ag = AggIdle
  /\ pr = PromptIdle
  /\ \E secretNumber \in Secrets :
       IsSecretNumber(secretNumber) /\ gm = NewGame(secretNumber)

\* the player edits the input
TypeGuess(value) ==
  /\ gm.input # value
  /\ gm' = [gm EXCEPT !.input = value, !.last = "input"]
  /\ UNCHANGED <<runVars, ex, ck, sy, ag, pr>>

\* a click on the submit button, which a disabled button does not deliver
ClickSubmit ==
  /\ ~gm.submitDisabled
  /\ gm' = [submitGuess(gm) EXCEPT !.last = "click"]
  /\ gm'.timers <= MaxTimers
  /\ UNCHANGED <<runVars, ex, ck, sy, ag, pr>>

\* the Enter key in the input
PressEnter ==
  /\ gm' = [submitGuess(gm) EXCEPT !.last = "Enter"]
  /\ gm'.timers <= MaxTimers
  /\ UNCHANGED <<runVars, ex, ck, sy, ag, pr>>

\* a click on the new game button
ClickNewGame ==
  /\ \E secretNumber \in Secrets :
       /\ IsSecretNumber(secretNumber)
       /\ gm' = [startNewGame(gm, secretNumber) EXCEPT !.last = "newGame"]
  /\ UNCHANGED <<runVars, ex, ck, sy, ag, pr>>

\* a timeout armed by showMessage fires
MessageTimeout ==
  /\ gm.timers > 0
  /\ gm' = [gm EXCEPT !.message = NoMessage, !.timers = @ - 1, !.last = "timeout"]
  /\ UNCHANGED <<runVars, ex, ck, sy, ag, pr>>

NextGame ==
  \/ \E value \in TypedGuesses : TypeGuess(value)
  \/ ClickSubmit
  \/ PressEnter
  \/ ClickNewGame
  \/ MessageTimeout

SpecGame == InitGame /\ [][NextGame]_vars

\* ------------------------------------------------------------------------
\* Claims
\* ------------------------------------------------------------------------
\* every row produced so far, in order
Produced == allRows \o rows

\* C1: without dry-run and without the key, the run fails before any trial:
\* no row is ever produced and main does not resolve.
C1_FailFast ==
  (~dryRun /\ ~hasKey) => (Produced = <<>> /\ log = <<>> /\ exitCode # 0)

\* the rows of Produced for one problem and one representation
RowsFor(all, id, rep) ==
  SelectSeq(all, LAMBDA r : r.problem_id = id /\ r.representation = rep)

\* the number of iterations of the run
Iterations == Len(chosen) * Len(problems) * trials

\* C2: without dry-run, whatever calls fail and however they fail, each
\* iteration leaves exactly one row; the answer text of an iteration whose call
\* threw is the message of the error; no error of a call ends the run: main
\* rejects only once every runTrials has returned all its rows, and the
\* process ends otherwise only where the last statement of the file throws,
\* before any call has ended; and a run that is done holds a row for every
\* trial of every problem of every chosen representation, with a request sent
\* for each of them when there is a key.
C2_FailureIsOneRow ==
  ~dryRun =>
    /\ Len(log) = Len(Produced)
    /\ \A k \in 1..Len(log) :
         log[k].error # NoError => log[k].text = log[k].error.message
    /\ exitCode = 1 =>
         \/ pc = "done" /\ repIdx > Len(chosen)
         \/ pc = "crashed" /\ ~hasDocument /\ log = <<>>
    /\ pc \in {"done", "crashed"} <=> exitCode \in {0, 1}
    /\ pc = "done" =>
         /\ Len(allRows) = Iterations
         /\ hasKey => fetches = Iterations

\* a finished run of two trials per problem whose first call timed out and
\* whose second call failed for its status, and whose later calls went on,
\* returning completions
C2_Witness ==
  /\ pc = "done" /\ ~dryRun /\ trials = 2 /\ exitCode = 0
  /\ log[1].error = AbortError /\ log[1].text = AbortError.message
  /\ log[2].error = Thrown("status")
  /\ Len(allRows) = Iterations
  /\ \A k \in 3..Len(log) : log[k].error = NoError /\ log[k].text # <<>>

\* C3: in a dry run, for every problem of the data model, the row's correct
\* flag is what isWithinTolerance returns for the number extracted from the
\* synthetic text.
C3_FlagFromChecker ==
  sy.done =>
    sy.row.correct = isWithinTolerance(sy.row.numeric_answer,
                                       sy.problem.expectedValue,
                                       sy.problem.toleranceRatio)

\* C4: no two rows produced agree on problem_id, representation and
\* trial_index; the rows that runTrials returns are Len(problems) * trials,
\* with exactly `trials` rows for every problem, their trial_index 1, 2, ...
\* in that order; and when the run is done, every problem has such rows under
\* every chosen representation, and every representation has
\* Len(problems) * trials rows.
C4_TrialIndexing ==
  /\ \A a, b \in 1..Len(Produced) :
       ( /\ Produced[a].problem_id = Produced[b].problem_id
         /\ Produced[a].representation = Produced[b].representation
         /\ Produced[a].trial_index = Produced[b].trial_index ) => a = b
  /\ (pc = "loop" /\ pIdx > Len(problems)) =>
       /\ Len(rows) = Len(problems) * trials
       /\ \A p \in 1..Len(problems) :
            LET sub == RowsFor(rows, problems[p].id, chosen[repIdx])
            IN  /\ Len(sub) = trials
                /\ \A k \in 1..Len(sub) : sub[k].trial_index = k
  /\ pc = "done" =>
       /\ \A r \in 1..Len(chosen) :
            /\ \A p \in 1..Len(problems) :
                 LET sub == RowsFor(allRows, problems[p].id, chosen[r])
                 IN  /\ Len(sub) = trials
                     /\ \A k \in 1..Len(sub) : sub[k].trial_index = k
            /\ Len(SelectSeq(allRows, LAMBDA x : x.representation = chosen[r]))
                 = Len(problems) * trials
       /\ \A k \in 1..Len(allRows) :
            \E r \in 1..Len(chosen) : allRows[k].representation = chosen[r]

\* a finished run of two trials per problem under both representations
C4_Witness ==
  /\ pc = "done" /\ trials = 2 /\ Len(chosen) = 2
  /\ Len(allRows) = 12
  /\ allRows[2].trial_index = 2

\* |a - x| <= |x| * t for the decimal literals a, x and t, in whole numbers
\* of the smallest unit of the three sides
WithinBand(a, x, t) ==
  LET s == Min(Min(a.e, x.e), x.e + t.e)
  IN  Abs(a.m * Pow10(a.e - s) - x.m * Pow10(x.e - s))
        <= Abs(x.m) * t.m * Pow10(x.e + t.e - s)

\* C5: isWithinTolerance is false for null; for numbers it is true exactly
\* when |actual - expected| <= |expected| * toleranceRatio, the edge of the
\* band included; for expected = 0 it is true exactly for actual = 0.
C5_ToleranceBand ==
  ck.done =>
    IF ck.actual.nil THEN ~ck.result
    ELSE /\ ck.result <=> WithinBand(ck.lit.a, ck.lit.x, ck.lit.t)
         /\ ck.lit.x.m = 0 => (ck.result <=> ck.lit.a.m = 0)

\* the first line of the text, in order, whose marker is one of ms; 0 if none
FirstMarked(ms) ==
  IF \E i \in 1..Len(ex.lines) : ex.lines[i].marker \in ms
  THEN CHOOSE i \in 1..Len(ex.lines) :
         /\ ex.lines[i].marker \in ms
         /\ \A h \in 1..(i - 1) : ex.lines[h].marker \notin ms
  ELSE 0

\* the first numeric match of the whole text: that of its first line that has
\* one
FirstOfText ==
  IF \E i \in 1..Len(ex.lines) : ~Bodies[ex.lines[i].body].first.nil
  THEN Bodies[ex.lines[CHOOSE i \in 1..Len(ex.lines) :
         /\ ~Bodies[ex.lines[i].body].first.nil
         /\ \A h \in 1..(i - 1) : Bodies[ex.lines[h].body].first.nil].body]
  ELSE [first |-> Null, finite |-> TRUE]

\* the match in the search scope, when the final-answer lines are those whose
\* marker is one of ms
ScopeMatch(ms) ==
  IF FirstMarked(ms) # 0 THEN Bodies[ex.lines[FirstMarked(ms)].body]
  ELSE FirstOfText

\* C6 as stated: whenever the text has a line "Final Answer: X unit" where X
\* denotes a real number, extractFinalNumeric returns X, whatever precedes
\* the line.
C6_AsStated ==
  ex.done =>
    \A i \in 1..Len(ex.lines) :
      (ex.lines[i].marker = "plain" /\ ~Bodies[ex.lines[i].body].x.nil)
        => ex.result = Bodies[ex.lines[i].body].x

\* C6 amended: when the first line of the text that starts with a final-answer
\* marker is "Final Answer: X unit", and X is a numeral that starts with a
\* digit after an optional minus sign and denotes a finite double,
\* extractFinalNumeric returns X, whatever the lines before it hold.
C6_FirstFinalLineValue ==
  ex.done =>
    \A i \in 1..Len(ex.lines) :
      ( /\ ex.lines[i].marker = "plain"
        /\ \A h \in 1..(i - 1) : ex.lines[h].marker = "none"
        /\ ~Bodies[ex.lines[i].body].x.nil
        /\ Bodies[ex.lines[i].body].plain
        /\ Bodies[ex.lines[i].body].finite )
        => ex.result = Bodies[ex.lines[i].body].x

\* a text whose second line is "Final Answer: 1,234.5 J", after a line that
\* holds another number, has been read as 1234.5
C6_Witness ==
  /\ ex.done
  /\ ex.lines = <<[marker |-> "none", body |-> 1], [marker |-> "plain", body |-> 2]>>
  /\ ex.result = Dec(12345, -1)

\* C7 as stated: the final-answer lines are those that start, after optional
\* white space and in any case, with "Final Answer:"; the result is the first
\* numeric match of the first of them (null if it has none), and the first
\* numeric match of the whole text (or null) only when there is no such line.
C7_AsStated ==
  ex.done =>
    LET sm == ScopeMatch({"plain", "case", "wide"})
    IN  ex.result = IF sm.finite THEN sm.first ELSE Null

\* C7 amended: the final-answer lines are those that start, after optional
\* white space and in any case, with "Final Answer", optional white space and
\* ":"; the result is the number of the first numeric match of the first of
\* them, and of the whole text only when there is no such line; it is null
\* when the scope has no match or the match is not a finite number.
C7_ScopeSelection ==
  ex.done =>
    LET sm == ScopeMatch({"plain", "case", "wide", "gap"})
    IN  ex.result = IF sm.finite THEN sm.first ELSE Null

\* a text with a number on its first line and a final-answer line without
\* one has been read as null
C7_Witness ==
  /\ ex.done
  /\ ex.lines = <<[marker |-> "none", body |-> 1], [marker |-> "case", body |-> 4]>>
  /\ ex.result = Null

\* C8: in every row produced, in either mode, a null numeric_answer comes
\* with correct = false.
C8_NullIsIncorrect ==
  \A k \in 1..Len(Produced) :
    Produced[k].numeric_answer.nil => ~Produced[k].correct

\* a run without dry-run has produced a row with a null numeric_answer
C8_Witness ==
  /\ ~dryRun /\ hasKey
  /\ \E k \in 1..Len(Produced) :
       Produced[k].numeric_answer.nil /\ ~Produced[k].correct

\* the (problem_id, representation) pairs of the rows given to aggregate
PairsOf(rs) == {<<rs[k].problem_id, rs[k].representation>> : k \in 1..Len(rs)}

\* C9: aggregate returns one record per distinct (problem_id, representation)
\* pair of its rows; the record carries that pair and counts the rows that
\* have it.
C9_GroupsByPair ==
  ag.calls >= 1 =>
    /\ Len(ag.out) = Cardinality(PairsOf(ag.given))
    /\ \A g \in 1..Len(ag.out) :
         /\ <<ag.out[g].problem_id, ag.out[g].representation>> \in PairsOf(ag.given)
         /\ ag.out[g].trials
              = Len(RowsFor(ag.given, ag.out[g].problem_id, ag.out[g].representation))

OneGroup(rs) == Cardinality(PairsOf(rs)) <= 1

\* the trial count aggregate reports for rows of one group
TrialsOf(out) == IF out = <<>> THEN 0 ELSE out[1].trials

\* C10: a call of aggregate leaves the rows it was given as they were; a
\* later call on the same rows returns what the call before it returned; and
\* when the rows are of one group, the count for the whole is the count for
\* the rows before the cut plus the count for the rows after it.
C10_RepeatableAdditive ==
  /\ ag.rows = ag.given
  /\ ag.calls >= 2 => ag.out = ag.prev
  /\ (ag.calls >= 1 /\ ag.parts /\ OneGroup(ag.given)) =>
       /\ Len(ag.out) <= 1 /\ Len(ag.outA) <= 1 /\ Len(ag.outB) <= 1
       /\ TrialsOf(ag.out) = TrialsOf(ag.outA) + TrialsOf(ag.outB)
       /\ TrialsOf(ag.out) = Len(ag.given)

\* three rows of one group, cut after the first, aggregated twice as a whole
\* and once in parts
C10_Witness ==
  /\ ag.calls = 2 /\ ag.parts
  /\ Len(ag.given) = 3 /\ ag.cut = 1 /\ OneGroup(ag.given)
  /\ ag.rows = ag.given /\ ag.out = ag.prev
  /\ TrialsOf(ag.outA) = 1 /\ TrialsOf(ag.outB) = 2 /\ TrialsOf(ag.out) = 3

\* the distinct keys of rs, in the order of their first rows
RECURSIVE KeysInOrder(_, _)
KeysInOrder(rs, seen) ==
  IF rs = <<>> THEN seen
  ELSE IF \E j \in 1..Len(seen) : seen[j] = key(Head(rs))
    THEN KeysInOrder(Tail(rs), seen)
  ELSE KeysInOrder(Tail(rs), Append(seen, key(Head(rs))))

RECURSIVE SumTrials(_)
SumTrials(out) == IF out = <<>> THEN 0 ELSE Head(out).trials + SumTrials(Tail(out))

\* x is a number of thousandths: the whole number of them, or -1
Thousandths(x) ==
  IF x.nil THEN -1
  ELSE Only({
              IF w.man = <<>> THEN (IF x = Zero THEN 0 ELSE -1)
              ELSE IF w.neg \/ Len(w.man) > 1 \/ w.exp > 10 THEN -1
              ELSE IF Dec(w.man[1] * 2^w.exp, -3) = x THEN w.man[1] * 2^w.exp
              ELSE -1 : w \in {MathRound(DecMul(x, Dec(1, 3)))}})

\* C11: aggregate returns one record per group of rows (the rows of one key,
\* the groups in the order of their first rows); the record's trials is the
\* number of rows of the group, its error_rate is the number of thousandths
\* nearest to 1 - correct/trials (a half going up, as Math.round takes it),
\* and the trials of all records add up to the number of rows given.
C11_CountsAndErrorRate ==
  ag.calls >= 1 =>
    LET keys == KeysInOrder(ag.given, <<>>)
    IN  /\ Len(ag.out) = Len(keys)
        /\ \A g \in 1..Len(ag.out) :
             LET grp == SelectSeq(ag.given, LAMBDA r : key(r) = keys[g])
                 t   == Len(grp)
                 bad == Len(SelectSeq(grp, LAMBDA r : ~r.correct))
                 th  == Thousandths(ag.out[g].error_rate)
             IN  /\ ag.out[g].trials = t
                 /\ t > 0
                 /\ th >= 0
                 /\ 2 * th * t <= 2000 * bad + t
                 /\ 2000 * bad + t < 2 * (th + 1) * t
        /\ SumTrials(ag.out) = Len(ag.given)

\* C12: in a dry run no request is ever sent to the service: none has been
\* sent so far, none is in flight, no timeout is armed and the run is never
\* inside a call, with or without a key.
C12_DryRunNoCall ==
  (dryRun /\ pc # "idle") =>
    fetches = 0 /\ inflight = 0 /\ ~timer /\ ~InCall

\* a dry run with a key configured is done, two trials per problem under both
\* representations, and no request has been sent
C12_Witness ==
  /\ dryRun /\ hasKey /\ pc = "done"
  /\ trials = 2 /\ Len(allRows) = 12
  /\ fetches = 0

\* the index in chosen of a representation
RepIndex(rep) == CHOOSE r \in 1..Len(chosen) : chosen[r] = rep

\* C13: at most one request is in flight, and only while the run is inside
\* the call, where there is one until the call is aborted; while the run is
\* inside a call, every request sent before has its row appended; a request
\* is sent only between two iterations, with none in flight, no timeout
\* armed and a row appended for every request sent before, and one at a time;
\* the rows of one runTrials all have the current representation, and the
\* rows come in the order of the representations chosen, never interleaved.
C13_OneCallInFlight ==
  /\ []( /\ inflight \in {0, 1}
         /\ inflight = 1 => InCall
         /\ (InCall /\ ~aborted) => inflight = 1
         /\ InCall => Len(Produced) = fetches - 1
         /\ \A k \in 1..Len(rows) : rows[k].representation = chosen[repIdx]
         /\ \A k \in 1..Len(allRows) : RepIndex(allRows[k].representation) < repIdx
         /\ \A a, b \in 1..Len(Produced) :
              a < b => RepIndex(Produced[a].representation)
                         <= RepIndex(Produced[b].representation) )
  /\ [][fetches' # fetches
          => /\ pc = "loop" /\ inflight = 0 /\ ~timer
             /\ Len(Produced) = fetches
             /\ fetches' = fetches + 1 /\ inflight' = 1]_vars

\* the first call of the second representation has its response and awaits
\* the body, its request open and its timeout armed, after all the trials of
\* the first representation, the last of which was aborted by its timeout
C13_Witness ==
  /\ ~dryRun /\ hasKey /\ pc = "json" /\ inflight = 1 /\ timer
  /\ trials = 2 /\ repIdx = 2 /\ rows = <<>>
  /\ Len(allRows) = Len(problems) * trials
  /\ log[Len(allRows)].error = AbortError
  /\ fetches = Len(allRows) + 1

\* the process has ended with main inside a call
CutOffInCall == pc = "crashed" /\ ~dryRun /\ hasKey /\ trials > 0

\* C14: without dry-run, the requests sent so far are one per iteration ended
\* plus one when the run is inside a call, or was when the process ended,
\* whether the calls returned, failed or timed out (and none at all without a
\* key); a run that has ended has sent at most one request per trial.
C14_NoRetries ==
  ~dryRun =>
    /\ fetches = IF hasKey
                 THEN Len(log) + (IF InCall \/ CutOffInCall THEN 1 ELSE 0)
                 ELSE 0
    /\ pc \in {"done", "crashed"} => fetches <= Iterations

\* a run whose first call failed for its status and whose second call failed
\* while the body was read is done, with one request per trial
C14_Witness ==
  /\ ~dryRun /\ hasKey /\ pc = "done" /\ trials >= 1
  /\ log[1].error = Thrown("status")
  /\ log[2].error = JsonError
  /\ fetches = Iterations

\* the text has a line that starts with the final-answer marker
HasFinalLine(t) ==
  LET lines == SplitLines(t)
  IN  \E i \in 1..Len(lines) : IsFinalLine(lines[i])

\* C15: in a dry run, every row whose draw was "incorrect" comes from a text
\* with a final-answer line, and its numeric_answer is 1.25 times the
\* expected value of its problem.
C15_IncorrectOffset ==
  dryRun =>
    \A k \in 1..Len(Produced) :
      ~Produced[k].correct =>
        /\ HasFinalLine(log[k].text)
        /\ Produced[k].numeric_answer
             = DecMul(Produced[k].expected_value, Dec(125, -2))

\* C16: the row of a dry-run iteration has latency_sec >= 5, under the two
\* representations, for the problems the table of means knows and for those
\* it does not, the name of an inherited property among them, whatever
\* randn() returns (its values lie between -8.5717 and 8.5717, the square
\* root of -2 * log(2^-53), so that the smallest latency of all is
\* 18.0 - 10.29).
C16_LatencyFloor ==
  sy.done => DecLeq(Dec(5, 0), sy.row.latency_sec)

\* a problem that the table of means does not know, with the least noise
\* draw, has a row with latency_sec 11.71
C16_Witness ==
  /\ sy.done /\ sy.problem.id = OtherId /\ sy.z = Dec(-857167434, -8)
  /\ sy.row.latency_sec = Dec(1171, -2)

\* the output-format instruction of a prompt: its last line
OutputFormat(prompt) == prompt[Len(prompt)]

\* C17: for every problem, the output-format instruction of the linear prompt
\* and that of the septagon prompt are the same string.
C17_SameOutputFormat ==
  pr.done => OutputFormat(pr.linear) = OutputFormat(pr.septagon)

\* C18: every run comes to its end, with a row for every trial of every
\* problem of every representation chosen and no timeout left armed; at every
\* moment a timeout is armed only while the run is inside a call, where it is
\* armed until it fires; and the step that ends a call, however it ends,
\* leaves no timeout armed.
C18_Terminates ==
  /\ <>( /\ pc = "done"
         /\ Len(allRows) = Iterations
         /\ ~timer )
  /\ [](timer => InCall)
  /\ []((InCall /\ ~aborted) => timer)
  /\ [][(InCall /\ ~InCall') => ~timer']_vars

\* whether the last guess recorded ended the game
LastGuessEnds(g) ==
  /\ g.guesses # <<>>
  /\ \/ g.guesses[Len(g.guesses)].result.a = 3
     \/ g.attempts >= maxAttempts

\* C19: in the game, attempts is always the number of recorded guesses and is
\* never above maxAttempts (10); gameOver is set exactly by a 3A result or by
\* the 10th attempt; once it is set, a submitGuess (click or Enter) changes
\* neither attempts, guesses nor gameOver, and only startNewGame unsets it,
\* resetting them to 0, empty and false.
C19_GameInvariants ==
  /\ [](gm.attempts = Len(gm.guesses) /\ gm.attempts <= maxAttempts)
  /\ [](gm.gameOver <=> LastGuessEnds(gm))
  /\ [][gm.gameOver /\ gm'.last \in {"click", "Enter"}
          => /\ gm'.attempts = gm.attempts
             /\ gm'.guesses = gm.guesses
             /\ gm'.gameOver]_vars
  /\ [][gm.gameOver /\ ~gm'.gameOver => gm'.last = "newGame"]_vars
  /\ [][gm'.last = "newGame"
          => gm'.attempts = 0 /\ gm'.guesses = <<>> /\ ~gm'.gameOver]_vars

\* the game was lost at the 10th attempt, a guess was typed after that and
\* Enter was pressed
C19_Witness ==
  /\ gm.loaded
  /\ gm.gameOver
  /\ gm.attempts = maxAttempts
  /\ gm.guesses[maxAttempts].result.a # 3
  /\ gm.last = "Enter"
  /\ gm.input = <<"1", "2", "3">>

\* a string of exactly three pairwise different decimal digits
ThreeDifferentDigits(s) ==
  /\ Len(s) = 3
  /\ \A i \in 1..3 : IsDigit(s[i])
  /\ \A i, j \in 1..3 : i # j => s[i] # s[j]

\* C20: every guess recorded is a string of exactly three pairwise different
\* decimal digits, and a submitGuess of any other input while the game runs
\* shows an error message and leaves attempts, guesses and gameOver as they
\* were.
C20_OnlyThreeDigits ==
  /\ [](gm.loaded => \A k \in 1..Len(gm.guesses) :
                       ThreeDifferentDigits(gm.guesses[k].guess))
  /\ [][(/\ ~gm.gameOver
          /\ gm'.last \in {"click", "Enter"}
          /\ ~ThreeDifferentDigits(Trim(gm.input)))
          => /\ gm'.attempts = gm.attempts
             /\ gm'.guesses = gm.guesses
             /\ gm'.gameOver = gm.gameOver
             /\ gm'.message.class = "message error"
             /\ gm'.message.text # ""]_vars

====
